---- MODULE Spec2Model ----
(***************************************************************************)
(* Model of the pkger Service of src/pkger/service.go: Apply with the      *)
(* rollbackCoordinator (runTilEnd / rollback), the per-kind appliers and   *)
(* their rollback handlers and the errStream aggregator (Spec), and DryRun *)
(* section by section with a client that calls DryRun and Apply            *)
(* repeatedly on one package (SpecCalls).                                  *)
(***************************************************************************)
EXTENDS Integers, Sequences, FiniteSets, TLC

(* ------------------------------ bounds -------------------------------- *)
\* largest applyReqLimit (capacity of coordinator.sem) drawn at construction
MaxReqLimit == 2
\* labels declared by the package
NumLabels == 2
\* buckets declared by the package
NumBuckets == 1
\* secret keys a package can refer to and the secret service can hold
NumSecrets == 2
\* names of resources and of labels in a diff
NumDiffNames == 2
\* names of the resources of one kind an organisation holds
NumCloneNames == 2
\* calls (DryRun, Apply) a client makes on one package
MaxCalls == 2

(* --------------------------- resource kinds --------------------------- *)
\* the `resource` constants of the applier builders
KLabel    == "label"
KVariable == "variable"
KBucket   == "bucket"
KDash     == "dashboard"
KEndpoint == "notification_endpoints"
KTele     == "telegrafs"
KMapping  == "label_mapping"

\* the applier groups of Apply, in the order they are handed to runTilEnd
appliers ==
  << <<KLabel>>,
     <<KVariable, KBucket, KDash, KEndpoint, KTele>>,
     <<KMapping>> >>

Kinds == {KLabel, KVariable, KBucket, KDash, KEndpoint, KTele, KMapping}

\* The packages applied.  "buckets": labels, buckets and their label mappings
\* (scenarios S3, S4 of the specification); "kinds": one record of every kind
\* but bucket, so the second group holds four appliers with one entry and one
\* with none.
Shapes == {"buckets", "kinds"}

\* len() of the package slice of kind k, which becomes creater.entries
ShapeEntries(sh, k) ==
  IF sh = "buckets"
  THEN CASE k = KLabel   -> NumLabels
         [] k = KBucket  -> NumBuckets
         [] k = KMapping -> 2
         [] OTHER        -> 0
  ELSE IF sh = "calls"
  THEN CASE k \in {KLabel, KBucket, KMapping} -> 1
         [] OTHER                             -> 0
  ELSE CASE k = KBucket  -> 0
         [] OTHER        -> 1

\* the package a client calls DryRun and Apply on repeatedly: one label, one
\* bucket and the mapping of the label to the bucket
CallsShape == "calls"

MaxEntries(k) ==
  IF ShapeEntries("buckets", k) > ShapeEntries("kinds", k)
  THEN ShapeEntries("buckets", k) ELSE ShapeEntries("kinds", k)

Items == UNION { {<<k, i>> : i \in 1..MaxEntries(k)} : k \in Kinds }

GroupOf(k) == CHOOSE g \in 1..Len(appliers) : \E j \in 1..Len(appliers[g]) : appliers[g][j] = k

GroupItems(g) == {it \in Items : GroupOf(it[1]) = g}

\* kinds whose package record carries an `existing` binding
Updatable == {KLabel, KVariable, KBucket, KEndpoint}

Nil == "nil"
Old == "old"      \* field values of the platform record before this Apply
New == "new"      \* field values the package declares

\* the platform ID of the resource an item names (nonzero, unique)
IdOf(it) == it
NoID == <<"", 0>>

(* ------------------------------ state --------------------------------- *)
VARIABLES
  applyReqLimit,  \* Service.applyReqLimit
  entries,        \* creater.entries of each applier (len of the package slice)
  cancelled,      \* parent ctx.Done() is closed
  port,           \* the resource services: per item the platform record and the calls made
  pkg,            \* the package records: existing binding and recorded id
  isVerified,     \* pkg.isVerified
  apc,            \* position of Apply
  group,          \* index of the group runTilEnd is running
  appCur,         \* runTilEnd: index i of the applier loop
  entCur,         \* runTilEnd: next idx of the entries loop (0: applier not yet registered)
  rollbacks,      \* rollbackCoordinator.rollbacks
  rbList,         \* per applier, its rollback slice (rollbackBuckets, rollBackLabels, ...)
  sem,            \* number of elements in rollbackCoordinator.sem
  releasing,      \* goroutines between wg.Done() and <-r.sem in their deferred function
  wg,             \* sync.WaitGroup counter of the running runTilEnd
  wpc,            \* position of each worker goroutine
  wres,           \* what creater.fn returned to each worker
  fnCalls,        \* number of invocations of creater.fn per item
  aggState,       \* errStream aggregator goroutine: "recv", "quit" (done seen), "none"
  mErrs,          \* aggregator's map resource -> applyErrs
  lastErr,        \* value returned by the last runTilEnd
  retErr,         \* the error Apply returns (e)
  rbCur,          \* rollback: index of the range loop
  rbOrder,        \* rollback handlers invoked so far, in order
  drpc,           \* position of DryRun: the section it runs next
  drCaller,       \* who called the running DryRun: "direct" (the client) or "apply"
  drErr,          \* the error the last DryRun returned
  pkgSecrets,     \* pkg.secrets(): the secret keys the package refers to
  orgSecrets,     \* << S >>: the keys S GetSecretKeys returned to the DryRun that runs or failed; else << >>
  lookups,        \* Find* / GetSecretKeys calls made by the current call
  port0,          \* the resource services as they were when the current call began
  verified0,      \* pkg.isVerified when the current call began
  calls,          \* the calls the client has made on the package, in order
  diffNew,        \* the records the diff of the running DryRun lists as new
  isParsed,       \* pkg.isParsed
  pkgValid,       \* what pkg.Validate() returns for the package: "nil", "parse" or "other" error
  parseErr,       \* DryRun: its local parseErr
  drRet,          \* what the last DryRun returned: summary, diff and error
  cpc,            \* position of CreatePkg
  cin,            \* the setters CreatePkg is called with and the platform it reads
  cloc,           \* the locals of CreatePkg: opt, the loop index, the label memo, the resources
  cret,           \* what CreatePkg returned
  cportCalls,     \* calls CreatePkg made on the resource service ports
  dfc,            \* which step of the diff of DryRun is computed: its input is dfIn
  dfIn,           \* the input of that step
  dfOut,          \* the result of that step
  errText,        \* what errStream.do sent on e.err: the resource_type blocks, in order
  mx,             \* one Apply followed through the mutex.Do calls of its workers
  co,             \* two Apply calls that run at the same time on one Service
  kv              \* the in-memory KVStore and the transaction that runs on it

\* validation of the package in DryRun and what DryRun returned
valvars == << isParsed, pkgValid, parseErr, drRet, diffNew >>

\* the state of CreatePkg
createVars == << cpc, cin, cloc, cret, cportCalls >>

\* the state of the finer-grained models
extvars == << mx, co, kv >>

auxvars == << createVars, dfc, dfIn, dfOut, errText, extvars >>

\* the state of DryRun and of the client's sequence of calls
drvars == << drpc, drCaller, drErr, pkgSecrets, orgSecrets, lookups, port0,
            verified0, calls, valvars, auxvars >>

vars == << applyReqLimit, entries, cancelled, port, pkg, isVerified, apc, group,
           appCur, entCur, rollbacks, rbList, sem, releasing, wg, wpc, wres, fnCalls,
           aggState, mErrs, lastErr, retErr, rbCur, rbOrder, drvars >>

NoErrs == [k \in Kinds |-> << >>]

\* the error of DryRun: the failing step and, for missing secrets, the keys
\* the message lists; NilDryErr is the nil error
DryErr(step, keys) == [dryRun |-> << step >>, keys |-> keys]
NilDryErr == [dryRun |-> << >>, keys |-> << >>]

\* the values DryRun returns: Summary{} and Diff{} are "empty"
NoRet == [summary |-> "none", diff |-> "none", err |-> "none"]

ValidateResults == {"nil", "parse", "other"}

\* opt and the locals of CreatePkg before the first setter runs
\* ass: the associations written on the cloned resources, as << resource,
\* label >>; newLabels: the label resources the association function returned;
\* assLookups: the resources FindResourceLabels was called for
NoLoc == [orgIDs |-> {}, resources |-> << >>, idx |-> 0, memo |-> {}, res |-> << >>,
          ass |-> {}, newLabels |-> << >>, assLookups |-> {}]

\* CreatePkg has not returned
NoPkg == [isNil |-> TRUE, resources |-> << >>, err |-> "none"]

\* no CreatePkg runs
CreateIdle ==
  /\ cpc = "idle"
  /\ cin = << >>
  /\ cloc = NoLoc
  /\ cret = NoPkg
  /\ cportCalls = 0

\* no step of the diff is computed
DiffIdle ==
  /\ dfc = "idle"
  /\ dfIn = << >>
  /\ dfOut = << >>

\* errStream.do has sent nothing on e.err
NoText == [emitted |-> FALSE, blocks |-> << >>]

ErrsIdle == errText = NoText

\* the appliers whose mutex.Do calls are followed
MutexKinds == {KLabel, KVariable, KBucket}

\* no Apply is followed through its mutex.Do calls
NoMx == [pc |-> "idle", limit |-> 0, entries |-> [k \in MutexKinds |-> 0], group |-> 0,
         app |-> 0, ent |-> 0, rollbacks |-> << >>, sem |-> 0, wg |-> 0, w |-> << >>,
         holder |-> [k \in MutexKinds |-> 0], list |-> [k \in MutexKinds |-> << >>],
         failed |-> FALSE, cur |-> 0, read |-> << >>]

\* the two Apply calls that run at the same time
ApplyCalls == {1, 2}

\* no Apply call has begun
NoCo == [limit |-> 0, entries |-> 0, pc |-> [c \in ApplyCalls |-> "idle"],
         ent |-> [c \in ApplyCalls |-> 0], cur |-> [c \in ApplyCalls |-> 0],
         sem |-> [c \in ApplyCalls |-> 0], wg |-> [c \in ApplyCalls |-> 0],
         releasing |-> [c \in ApplyCalls |-> 0],
         rollbacks |-> [c \in ApplyCalls |-> << >>], list |-> [c \in ApplyCalls |-> << >>],
         failed |-> [c \in ApplyCalls |-> FALSE], w |-> << >>, platform |-> {},
         deleted |-> {}]

\* no KVStore was made
NoKv == [made |-> FALSE, buckets |-> << >>, ro |-> << >>, tx |-> "none", handles |-> {},
         snap |-> << >>, last |-> [op |-> "none", name |-> 0, ro |-> FALSE, err |-> "nil"]]

MxIdle == mx = NoMx
CoIdle == co = NoCo
KvIdle == kv = NoKv

ExtIdle == MxIdle /\ CoIdle /\ KvIdle

AuxIdle == CreateIdle /\ DiffIdle /\ ErrsIdle /\ ExtIdle

SecretKeys == 1..NumSecrets

\* len(mErrs) == 0
IsNilErr(e) == \A k \in DOMAIN e : e[k] = << >>

Absent == [present |-> FALSE, val |-> Nil, creates |-> 0, updates |-> 0,
           deletes |-> 0, rbUpdate |-> Nil, rbErrs |-> 0]

\* platform states an organisation can be in before Apply
Scenarios == {"fresh", "mixed"}

\* "fresh": the organisation holds none of the package's resources.  "mixed":
\* the first record of a kind exists with other field values, the second
\* exists with exactly the declared ones, further ones do not exist; the
\* first label mapping is already attached.
InitPort(s) ==
  [it \in Items |->
     IF s = "fresh" \/ it[1] \in {KDash, KTele} THEN Absent
     ELSE IF it[2] = 1 THEN [Absent EXCEPT !.present = TRUE, !.val = Old]
     ELSE IF it[2] = 2 /\ it[1] # KMapping THEN [Absent EXCEPT !.present = TRUE, !.val = New]
     ELSE Absent]

Init ==
  /\ applyReqLimit \in 1..MaxReqLimit
  /\ \E sh \in Shapes : entries = [k \in Kinds |-> ShapeEntries(sh, k)]
  /\ cancelled = FALSE
  /\ \E s \in Scenarios : port = InitPort(s)
  /\ pkg = [it \in Items |-> [existing |-> Nil, id |-> NoID]]
  /\ isVerified = FALSE
  /\ apc = "start"
  /\ group = 0
  /\ appCur = 0
  /\ entCur = 0
  /\ rollbacks = << >>
  /\ rbList = [k \in Kinds |-> << >>]
  /\ sem = 0
  /\ releasing = 0
  /\ wg = 0
  /\ wpc = [it \in Items |-> "idle"]
  /\ wres = [it \in Items |-> "none"]
  /\ fnCalls = [it \in Items |-> 0]
  /\ aggState = "none"
  /\ mErrs = NoErrs
  /\ lastErr = NoErrs
  /\ retErr = NoErrs
  /\ rbCur = 0
  /\ rbOrder = << >>
  /\ drpc = "idle"
  /\ drCaller = "none"
  /\ drErr = NilDryErr
  /\ pkgSecrets = {}
  /\ orgSecrets = << >>
  /\ lookups = 0
  /\ port0 = port
  /\ verified0 = FALSE
  /\ calls = << [op |-> "Apply", ret |-> "pending"] >>
  /\ isParsed = TRUE
  /\ pkgValid = "nil"
  /\ parseErr = "nil"
  /\ drRet = NoRet
  /\ diffNew = {}
  /\ AuxIdle


(* ------------------------ resource service ports ---------------------- *)
\* Create* of a port: the record exists afterwards with the given fields
PortCreate(p, it, v) ==
  [p EXCEPT ![it] = [@ EXCEPT !.present = TRUE, !.val = v, !.creates = @ + 1]]

\* Update* of a port during apply, addressed by platform ID
PortUpdate(p, id, v) ==
  [x \in Items |->
     IF IdOf(x) = id
     THEN [p[x] EXCEPT !.val = IF p[x].present THEN v ELSE @, !.updates = @ + 1]
     ELSE p[x]]

\* Update* of a port issued by a rollback handler, addressed by platform ID
PortRestore(p, id, v, ok) ==
  [x \in Items |->
     IF IdOf(x) = id
     THEN [p[x] EXCEPT !.val = IF p[x].present /\ ok THEN v ELSE @,
                       !.rbUpdate = v,
                       !.rbErrs = IF ok THEN @ ELSE @ + 1]
     ELSE p[x]]

\* Delete* of a port, addressed by platform ID; ok = FALSE is a failing call
PortDelete(p, id, ok) ==
  [x \in Items |->
     IF IdOf(x) = id
     THEN [p[x] EXCEPT !.present = IF ok THEN FALSE ELSE @,
                       !.val = IF ok THEN Nil ELSE @,
                       !.deletes = @ + 1,
                       !.rbErrs = IF ok THEN @ ELSE @ + 1]
     ELSE p[x]]

\* a port call that returns an error leaves the platform as it was
PortFailed(p, it, op) ==
  IF op = "create" THEN [p EXCEPT ![it].creates = @ + 1]
  ELSE [p EXCEPT ![it].updates = @ + 1]

(* --------------------------- package records -------------------------- *)
\* ID() of a package record: the existing record's ID when bound, else the recorded id
ID(pk, it) == IF pk[it].existing # Nil THEN IdOf(it) ELSE pk[it].id

\* shouldApply() of bucket, label and variable
shouldApply(pk, it) == pk[it].existing = Nil \/ pk[it].existing # New

\* DryRun: binds `existing` of every record the platform holds and marks the
\* label mappings that are already attached
DryRunBind(p, pk) ==
  [it \in Items |->
     IF it[1] \in Updatable \cup {KMapping} /\ p[it].present
     THEN [pk[it] EXCEPT !.existing = p[it].val]
     ELSE pk[it]]

(* ------------------------------ appliers ------------------------------ *)
\* which port operation the applier of an item issues
ApplyOp(pk, it) ==
  IF it[1] \in Updatable /\ pk[it].existing # Nil THEN "update" ELSE "create"

\* variant: the bucket is created whether or not it is bound
applyBucketAlwaysCreate(p, pk, it) == PortCreate(p, it, New)

applyBucket(p, pk, it) ==
  IF pk[it].existing # Nil THEN PortUpdate(p, ID(pk, it), New)
  ELSE PortCreate(p, it, New)

applyLabel(p, pk, it) ==
  IF pk[it].existing # Nil THEN PortUpdate(p, ID(pk, it), New)
  ELSE PortCreate(p, it, New)

applyVariable(p, pk, it) ==
  IF pk[it].existing # Nil THEN PortUpdate(p, ID(pk, it), New)
  ELSE PortCreate(p, it, New)

\* the update branch passes e.existing to UpdateNotificationEndpoint
applyNotificationEndpoint(p, pk, it) ==
  IF pk[it].existing # Nil THEN PortUpdate(p, ID(pk, it), pk[it].existing)
  ELSE PortCreate(p, it, New)

applyDashboard(p, pk, it) == PortCreate(p, it, New)

applyTelegraf(p, pk, it) == PortCreate(p, it, New)

applyLabelMapping(p, pk, it) == PortCreate(p, it, New)

\* creater.fn of the applier of kind it[1]: the port call, when it succeeds
createFn(p, pk, it) ==
  CASE it[1] = KBucket   -> applyBucket(p, pk, it)
    [] it[1] = KLabel    -> applyLabel(p, pk, it)
    [] it[1] = KVariable -> applyVariable(p, pk, it)
    [] it[1] = KEndpoint -> applyNotificationEndpoint(p, pk, it)
    [] it[1] = KDash     -> applyDashboard(p, pk, it)
    [] it[1] = KTele     -> applyTelegraf(p, pk, it)
    [] it[1] = KMapping  -> applyLabelMapping(p, pk, it)

\* variant: a label mapping is created whether or not it exists
skipsApplyNoMapping(pk, it) ==
  it[1] \in {KBucket, KLabel, KVariable} /\ ~shouldApply(pk, it)

\* variant: creater.fn never returns before its port call
skipsApplyNever(pk, it) == FALSE

\* does creater.fn return nil before any port call
skipsApply(pk, it) ==
  CASE it[1] \in {KBucket, KLabel, KVariable} -> ~shouldApply(pk, it)
    [] it[1] = KMapping                        -> pk[it].existing # Nil
    [] OTHER                                   -> FALSE

(* -------------------------- rollback handlers ------------------------- *)
\* Each handler walks its rollback slice; okSet holds the items whose
\* rollback port call succeeds.
RECURSIVE rollbackBuckets(_, _, _, _)
rollbackBuckets(p, pk, list, okSet) ==
  IF list = << >> THEN p
  ELSE LET b == Head(list)
           q == IF pk[b].existing = Nil
                THEN PortDelete(p, ID(pk, b), b \in okSet)
                ELSE PortRestore(p, ID(pk, b), New, b \in okSet)
       IN rollbackBuckets(q, pk, Tail(list), okSet)

RECURSIVE rollbackLabels(_, _, _, _)
rollbackLabels(p, pk, list, okSet) ==
  IF list = << >> THEN p
  ELSE LET l == Head(list)
           q == IF pk[l].existing = Nil
                THEN PortDelete(p, ID(pk, l), l \in okSet)
                ELSE PortRestore(p, ID(pk, l), pk[l].existing, l \in okSet)
       IN rollbackLabels(q, pk, Tail(list), okSet)

RECURSIVE rollbackVariables(_, _, _, _)
rollbackVariables(p, pk, list, okSet) ==
  IF list = << >> THEN p
  ELSE LET v == Head(list)
           q == IF pk[v].existing = Nil
                THEN PortDelete(p, ID(pk, v), v \in okSet)
                ELSE PortRestore(p, ID(pk, v), pk[v].existing, v \in okSet)
       IN rollbackVariables(q, pk, Tail(list), okSet)

RECURSIVE rollbackNotificationEndpoints(_, _, _, _)
rollbackNotificationEndpoints(p, pk, list, okSet) ==
  IF list = << >> THEN p
  ELSE LET e == Head(list)
           q == IF pk[e].existing = Nil
                THEN PortDelete(p, ID(pk, e), e \in okSet)
                ELSE PortRestore(p, ID(pk, e), pk[e].existing, e \in okSet)
       IN rollbackNotificationEndpoints(q, pk, Tail(list), okSet)

\* dashboards and telegrafs
RECURSIVE deleteByIDs(_, _, _, _)
deleteByIDs(p, pk, list, okSet) ==
  IF list = << >> THEN p
  ELSE deleteByIDs(PortDelete(p, ID(pk, Head(list)), Head(list) \in okSet),
                   pk, Tail(list), okSet)

\* the slice holds the created influxdb.LabelMapping values themselves
RECURSIVE rollbackLabelMappings(_, _, _, _)
rollbackLabelMappings(p, pk, list, okSet) ==
  IF list = << >> THEN p
  ELSE rollbackLabelMappings(PortDelete(p, IdOf(Head(list)), Head(list) \in okSet),
                             pk, Tail(list), okSet)

\* the rollback slice up to and including its first record whose call fails
UpToFailure(list, okSet) ==
  LET bad == {i \in 1..Len(list) : list[i] \notin okSet}
  IN IF bad = {} THEN list
     ELSE SubSeq(list, 1, CHOOSE i \in bad : \A j \in bad : i <= j)

\* variant: a handler returns at the first port call that fails
rollbackFnStopsAtFailure(k, p, pk, list, okSet) ==
  CASE k = KBucket   -> rollbackBuckets(p, pk, UpToFailure(list, okSet), okSet)
    [] k = KLabel    -> rollbackLabels(p, pk, UpToFailure(list, okSet), okSet)
    [] k = KVariable -> rollbackVariables(p, pk, UpToFailure(list, okSet), okSet)
    [] k = KEndpoint -> rollbackNotificationEndpoints(p, pk, UpToFailure(list, okSet), okSet)
    [] k = KDash     -> deleteByIDs(p, pk, UpToFailure(list, okSet), okSet)
    [] k = KTele     -> deleteByIDs(p, pk, UpToFailure(list, okSet), okSet)
    [] k = KMapping  -> rollbackLabelMappings(p, pk, UpToFailure(list, okSet), okSet)

\* rollbacker.fn of the applier of kind k
rollbackFn(k, p, pk, list, okSet) ==
  CASE k = KBucket   -> rollbackBuckets(p, pk, list, okSet)
    [] k = KLabel    -> rollbackLabels(p, pk, list, okSet)
    [] k = KVariable -> rollbackVariables(p, pk, list, okSet)
    [] k = KEndpoint -> rollbackNotificationEndpoints(p, pk, list, okSet)
    [] k = KDash     -> deleteByIDs(p, pk, list, okSet)
    [] k = KTele     -> deleteByIDs(p, pk, list, okSet)
    [] k = KMapping  -> rollbackLabelMappings(p, pk, list, okSet)


(* ------------------------------- Apply -------------------------------- *)
\* Apply up to the construction of the coordinator: the lazily run DryRun,
\* then the first runTilEnd with its new errStream
ApplyStart ==
  /\ apc = "start"
  /\ pkg' = IF isVerified THEN pkg ELSE DryRunBind(port, pkg)
  /\ isVerified' = TRUE
  /\ apc' = "run"
  /\ group' = 1
  /\ appCur' = 1
  /\ entCur' = 0
  /\ aggState' = "recv"
  /\ mErrs' = NoErrs
  /\ UNCHANGED << drvars, applyReqLimit, entries, releasing, cancelled, port, rollbacks, rbList, sem, wg, wpc,
                  wres, fnCalls, lastErr, retErr, rbCur, rbOrder >>

\* the parent context of Apply is cancelled by the caller
Cancel ==
  /\ apc = "run"
  /\ ~cancelled
  /\ cancelled' = TRUE
  /\ UNCHANGED << drvars, applyReqLimit, entries, releasing, port, pkg, isVerified, apc, group, appCur, entCur,
                  rollbacks, rbList, sem, wg, wpc, wres, fnCalls, aggState, mErrs,
                  lastErr, retErr, rbCur, rbOrder >>

(* ------------------------ rollbackCoordinator ------------------------- *)
\* variant: the handler of the label mappings is registered with every applier
registerRollbackerEager(rbs, k) ==
  IF k = KMapping THEN Append(rbs, k) ELSE Append(Append(rbs, k), KMapping)

\* r.rollbacks = append(r.rollbacks, app.rollbacker)
registerRollbacker(rbs, k) == Append(rbs, k)

\* runTilEnd, head of the applier loop: app := appliers[i]; append its rollbacker
Register ==
  /\ apc = "run"
  /\ appCur <= Len(appliers[group])
  /\ entCur = 0
  /\ rollbacks' = registerRollbacker(rollbacks, appliers[group][appCur])
  /\ IF entries[appliers[group][appCur]] = 0
     THEN appCur' = appCur + 1 /\ entCur' = 0
     ELSE appCur' = appCur /\ entCur' = 1
  /\ UNCHANGED << drvars, applyReqLimit, entries, releasing, cancelled, port, pkg, isVerified, apc, group, rbList,
                  sem, wg, wpc, wres, fnCalls, aggState, mErrs, lastErr, retErr,
                  rbCur, rbOrder >>

\* variant: every goroutine reads the loop variable of the first iteration
workerIndexShared(idx) == 1

\* the index the goroutine go func(i int, resource string){...}(idx, ...) works on
workerIndex(idx) == idx

\* variant: the capacity check is off by one
semFreeOffByOne(n, limit) == n <= limit

\* may the coordinator put one more element into r.sem
semFree(n, limit) == n < limit

\* runTilEnd, body of the entries loop: r.sem <- struct{}{}; wg.Add(1); go func
Spawn ==
  /\ apc = "run"
  /\ appCur <= Len(appliers[group])
  /\ entCur >= 1
  /\ semFree(sem, applyReqLimit)
  /\ LET k == appliers[group][appCur]
         it == <<k, workerIndex(entCur)>>
     IN /\ wpc' = [wpc EXCEPT ![it] = "spawned"]
        /\ sem' = sem + 1
        /\ wg' = wg + 1
        /\ IF entCur = entries[k]
           THEN appCur' = appCur + 1 /\ entCur' = 0
           ELSE appCur' = appCur /\ entCur' = entCur + 1
  /\ UNCHANGED << drvars, applyReqLimit, entries, releasing, cancelled, port, pkg, isVerified, apc, group, rollbacks,
                  rbList, wres, fnCalls, aggState, mErrs, lastErr, retErr, rbCur, rbOrder >>

(* ------------------------------ workers ------------------------------- *)
\* the goroutine calls app.creater.fn: first mutex.Do, then the shouldApply /
\* exists test that returns nil before any port call
WorkerEnter(it) ==
  /\ wpc[it] = "spawned"
  /\ fnCalls' = [fnCalls EXCEPT ![it] = @ + 1]
  /\ IF skipsApply(pkg, it)
     THEN /\ wpc' = [wpc EXCEPT ![it] = "exit"]
          /\ wres' = [wres EXCEPT ![it] = "skip"]
     ELSE /\ wpc' = [wpc EXCEPT ![it] = "call"]
          /\ wres' = wres
  /\ UNCHANGED << drvars, applyReqLimit, entries, releasing, cancelled, port, pkg, isVerified, apc, group, appCur,
                  entCur, rollbacks, rbList, sem, wg, aggState, mErrs, lastErr, retErr,
                  rbCur, rbOrder >>

\* variant: the successful record is not kept for rollback
rollbackAppendDropped(list, it) == list

\* variant: the successful record is appended twice
rollbackAppendTwice(list, it) == Append(Append(list, it), it)

\* the record a successful creater.fn appends to its applier's rollback slice
rollbackAppend(list, it) == Append(list, it)

\* the port call of creater.fn returns nil: second mutex.Do records the id
\* and appends the record to the applier's rollback slice
WorkerCallOk(it) ==
  /\ wpc[it] = "call"
  /\ port' = createFn(port, pkg, it)
  /\ pkg' = [pkg EXCEPT ![it].id = IdOf(it)]
  /\ rbList' = [rbList EXCEPT ![it[1]] = rollbackAppend(@, it)]
  /\ wpc' = [wpc EXCEPT ![it] = "exit"]
  /\ wres' = [wres EXCEPT ![it] = "ok"]
  /\ UNCHANGED << drvars, applyReqLimit, entries, releasing, cancelled, isVerified, apc, group, appCur, entCur,
                  rollbacks, sem, wg, fnCalls, aggState, mErrs, lastErr, retErr,
                  rbCur, rbOrder >>

\* the port call returns an error (port failure, cancelled or timed-out ctx):
\* creater.fn returns an applyErrBody
WorkerCallErr(it) ==
  /\ wpc[it] = "call"
  /\ port' = PortFailed(port, it, ApplyOp(pkg, it))
  /\ wpc' = [wpc EXCEPT ![it] = "add"]
  /\ wres' = [wres EXCEPT ![it] = "err"]
  /\ UNCHANGED << drvars, applyReqLimit, entries, releasing, cancelled, pkg, isVerified, apc, group, appCur, entCur,
                  rollbacks, rbList, sem, wg, fnCalls, aggState, mErrs, lastErr, retErr,
                  rbCur, rbOrder >>

(* ----------------------------- errStream ------------------------------ *)
\* the aggregator's mErrs[msg.resource] = append(mErrs[msg.resource], &msg.err)
aggAppend(m, resource, it) == [m EXCEPT ![resource] = Append(@, it)]

\* errStream.add, case e.msgStream <- msg: the aggregator receives the message
AddSend(it) ==
  /\ wpc[it] = "add"
  /\ aggState = "recv"
  /\ mErrs' = aggAppend(mErrs, it[1], it)
  /\ wpc' = [wpc EXCEPT ![it] = "exit"]
  /\ UNCHANGED << drvars, applyReqLimit, entries, releasing, cancelled, port, pkg, isVerified, apc, group, appCur,
                  entCur, rollbacks, rbList, sem, wg, wres, fnCalls, aggState, lastErr,
                  retErr, rbCur, rbOrder >>

\* variant: add has no done case and only sends
doneReadyNever(c) == FALSE

\* a receive from e.done is ready once the parent context is cancelled
doneReady(c) == c

\* errStream.add, case <-e.done: the message is discarded
AddDone(it) ==
  /\ wpc[it] = "add"
  /\ doneReady(cancelled)
  /\ wpc' = [wpc EXCEPT ![it] = "exit"]
  /\ UNCHANGED << drvars, applyReqLimit, entries, releasing, cancelled, port, pkg, isVerified, apc, group, appCur,
                  entCur, rollbacks, rbList, sem, wg, wres, fnCalls, aggState, mErrs,
                  lastErr, retErr, rbCur, rbOrder >>

\* errStream.do, case <-e.done: the aggregator returns nil for mErrs and
\* blocks on e.err <- nil
AggDone ==
  /\ aggState = "recv"
  /\ cancelled
  /\ aggState' = "quit"
  /\ mErrs' = NoErrs
  /\ UNCHANGED << drvars, applyReqLimit, entries, releasing, cancelled, port, pkg, isVerified, apc, group, appCur,
                  entCur, rollbacks, rbList, sem, wg, wpc, wres, fnCalls, lastErr,
                  retErr, rbCur, rbOrder >>

\* variant: a worker that got an error returns without the deferred release
WorkerDoneLeakOnErr(it) ==
  /\ wpc[it] = "exit"
  /\ wg' = wg - 1
  /\ wpc' = [wpc EXCEPT ![it] = "done"]
  /\ releasing' = IF wres[it] = "err" THEN releasing ELSE releasing + 1
  /\ UNCHANGED << drvars, applyReqLimit, entries, cancelled, port, pkg, isVerified, apc, group,
                  appCur, entCur, rollbacks, rbList, sem, wres, fnCalls, aggState, mErrs,
                  lastErr, retErr, rbCur, rbOrder >>

\* the worker's deferred function, first half: wg.Done()
WorkerDone(it) ==
  /\ wpc[it] = "exit"
  /\ wg' = wg - 1
  /\ wpc' = [wpc EXCEPT ![it] = "done"]
  /\ releasing' = releasing + 1
  /\ UNCHANGED << drvars, applyReqLimit, entries, cancelled, port, pkg, isVerified, apc, group,
                  appCur, entCur, rollbacks, rbList, sem, wres, fnCalls, aggState, mErrs,
                  lastErr, retErr, rbCur, rbOrder >>

\* the deferred function of some worker, second half: <-r.sem.  After wg.Done()
\* a goroutine has nothing left but this receive, so only their number is kept.
WorkerRelease ==
  /\ releasing > 0
  /\ sem' = sem - 1
  /\ releasing' = releasing - 1
  /\ UNCHANGED << drvars, applyReqLimit, entries, cancelled, port, pkg, isVerified, apc, group,
                  appCur, entCur, rollbacks, rbList, wg, wpc, wres, fnCalls, aggState,
                  mErrs, lastErr, retErr, rbCur, rbOrder >>


\* errStream.close once the aggregator is gone or still receiving: close(msgStream)
\* makes a receiving aggregator return mErrs; one that saw done sends nil
\* variant: the deferred rollback does not test the error of Apply
rollbackRunsAlways(err) == TRUE

\* the deferred coordinator.rollback(s.log, &e) returns at once when *err is nil
rollbackRuns(err) == ~IsNilErr(err)

closeResult(state, m) == IF state = "recv" THEN m ELSE NoErrs

\* variant: the coordinator does not wait for the workers of the group
waitReturnsAtOnce(n) == TRUE

\* wg.Wait() returns when the counter of the WaitGroup is zero
waitReturns(n) == n = 0

\* runTilEnd from wg.Wait() on, and what Apply does with its result: return the
\* error (the deferred rollback then runs), start the next group, or return
\* the summary
RunTilEndFinish ==
  /\ apc = "run"
  /\ appCur > Len(appliers[group])
  /\ waitReturns(wg)
  /\ LET err == closeResult(aggState, mErrs)
     IN /\ lastErr' = err
        /\ IF ~IsNilErr(err)
           THEN /\ retErr' = err
                /\ apc' = IF rollbackRuns(err) THEN "rollback" ELSE "returned"
                /\ rbCur' = 1
                /\ UNCHANGED << group, appCur, entCur >>
                /\ aggState' = "none"
                /\ mErrs' = NoErrs
           ELSE IF group < Len(appliers)
           THEN /\ group' = group + 1
                /\ appCur' = 1
                /\ entCur' = 0
                /\ aggState' = "recv"
                /\ mErrs' = NoErrs
                /\ UNCHANGED << retErr, apc, rbCur >>
           ELSE /\ retErr' = NoErrs
                /\ apc' = IF rollbackRuns(NoErrs) THEN "rollback" ELSE "returned"
                /\ rbCur' = IF rollbackRuns(NoErrs) THEN 1 ELSE rbCur
                /\ aggState' = "none"
                /\ mErrs' = NoErrs
                /\ UNCHANGED << group, appCur, entCur >>
  /\ UNCHANGED << drvars, applyReqLimit, entries, releasing, cancelled, port, pkg, isVerified, rollbacks, rbList,
                  sem, wg, wpc, wres, fnCalls, rbOrder >>

Range(f) == {f[i] : i \in DOMAIN f}

\* variant: only the rollbacker of the last applier is run
rollbackOrderLast(rs) == IF rs = << >> THEN rs ELSE << rs[Len(rs)] >>

\* the order in which rollback ranges over r.rollbacks
rollbackOrder(rs) == rs

\* rollbackCoordinator.rollback, one iteration of the range loop: r.fn(), whose
\* error is only logged
RollbackStep ==
  /\ apc = "rollback"
  /\ rbCur <= Len(rollbackOrder(rollbacks))
  /\ LET k == rollbackOrder(rollbacks)[rbCur]
     IN /\ \E okSet \in SUBSET Range(rbList[k]) :
             port' = rollbackFn(k, port, pkg, rbList[k], okSet)
        /\ rbOrder' = Append(rbOrder, k)
        /\ rbCur' = rbCur + 1
  /\ UNCHANGED << drvars, applyReqLimit, entries, releasing, cancelled, pkg, isVerified, apc, group, appCur, entCur,
                  rollbacks, rbList, sem, wg, wpc, wres, fnCalls, aggState, mErrs,
                  lastErr, retErr >>

\* the deferred rollback has finished: Apply returns Summary{}, err
ApplyReturn ==
  /\ apc = "rollback"
  /\ rbCur > Len(rollbackOrder(rollbacks))
  /\ apc' = "returned"
  /\ UNCHANGED << drvars, applyReqLimit, entries, releasing, cancelled, port, pkg, isVerified, group, appCur, entCur,
                  rollbacks, rbList, sem, wg, wpc, wres, fnCalls, aggState, mErrs,
                  lastErr, retErr, rbCur, rbOrder >>

(* ------------------------------- DryRun ------------------------------- *)
\* the state of the coordinator, its workers and the errStream of one Apply
coordVars == << cancelled, group, appCur, entCur, rollbacks, rbList, sem, releasing,
                wg, wpc, wres, fnCalls, aggState, mErrs, lastErr, retErr, rbCur,
                rbOrder >>

\* the orders in which a range over a Go map with key set S yields the keys
Orders(S) == {q \in [1..Cardinality(S) -> S] : \A x \in S : \E i \in DOMAIN q : q[i] = x}

RECURSIVE sortInsert(_, _)
sortInsert(q, x) ==
  IF q = << >> THEN << x >>
  ELSE IF x <= Head(q) THEN << x >> \o q
  ELSE << Head(q) >> \o sortInsert(Tail(q), x)

RECURSIVE sortInto(_, _)
sortInto(acc, q) == IF q = << >> THEN acc ELSE sortInto(sortInsert(acc, Head(q)), Tail(q))

\* variant: the missing keys are listed in the order the map range yields them
sortStringsSkipped(q) == q

\* sort.Strings(missing)
sortStrings(q) == sortInto(<< >>, q)

\* the records of kind k the package declares
Declared(e, k) == {<<k, i>> : i \in 1..e[k]}

\* the records of kind k for which a section builds its diff with a nil
\* existing record: those the lookup did not return
diffNewOf(p, e, k, fails) ==
  {it \in Declared(e, k) : ~(p[it].present /\ it \notin fails)}

\* variant: a bucket that is not found loses its binding
dryRunBucketsResetting(p, pk, e, fails) ==
  [it \in Items |->
     IF it \in Declared(e, KBucket)
     THEN [pk[it] EXCEPT !.existing = IF p[it].present /\ it \notin fails
                                      THEN p[it].val ELSE Nil]
     ELSE pk[it]]

\* dryRunBuckets: FindBucketByName per bucket; any error counts as absence
dryRunBuckets(p, pk, e, fails) ==
  [it \in Items |->
     IF it \in Declared(e, KBucket) /\ p[it].present /\ it \notin fails
     THEN [pk[it] EXCEPT !.existing = p[it].val]
     ELSE pk[it]]

\* dryRunLabels: FindLabels per label; an error or an empty result counts as absence
dryRunLabels(p, pk, e, fails) ==
  [it \in Items |->
     IF it \in Declared(e, KLabel) /\ p[it].present /\ it \notin fails
     THEN [pk[it] EXCEPT !.existing = p[it].val]
     ELSE pk[it]]

\* dryRunNotificationEndpoints after its one FindNotificationEndpoints succeeded
dryRunNotificationEndpoints(p, pk, e) ==
  [it \in Items |->
     IF it \in Declared(e, KEndpoint) /\ p[it].present
     THEN [pk[it] EXCEPT !.existing = p[it].val]
     ELSE pk[it]]

\* dryRunVariables: FindVariables per variable; an error counts as absence
dryRunVariables(p, pk, e, fails) ==
  [it \in Items |->
     IF it \in Declared(e, KVariable) /\ p[it].present /\ it \notin fails
     THEN [pk[it] EXCEPT !.existing = p[it].val]
     ELSE pk[it]]

\* the resource whose label association a label mapping of the package belongs to
MappingRes(e, m) == IF e[KBucket] > 0 THEN <<KBucket, 1>> ELSE <<KVariable, 1>>

\* the associations dryRunLabelMappings visits, in the order of its mappers
mapperSeq(e) ==
  LET of(k) == [i \in 1..e[k] |-> <<k, i>>]
  IN of(KBucket) \o of(KDash) \o of(KEndpoint) \o of(KTele) \o of(KVariable)

\* la.Exists() of the association of a resource
Exists(pk, res) == res[1] \in Updatable /\ pk[res].existing # Nil

\* dryRunLabelMappings over the first n associations: setMapping(la, !isNew) for
\* every label of an association; a mapping is marked existing when the
\* resource exists and FindResourceLabels returns the label
dryRunLabelMappings(p, pk, e, n) ==
  LET visited == {mapperSeq(e)[j] : j \in 1..n}
  IN [it \in Items |->
        IF it \in Declared(e, KMapping) /\ MappingRes(e, it) \in visited
        THEN [pk[it] EXCEPT !.existing =
                IF Exists(pk, MappingRes(e, it)) /\ p[it].present THEN p[it].val ELSE Nil]
        ELSE pk[it]]

\* FindResourceLabels calls made for the first n associations
mappingLookups(pk, e, n) == Cardinality({j \in 1..n : Exists(pk, mapperSeq(e)[j])})

\* the counters of the ports count the calls of the current call
NewCall(p) ==
  [it \in Items |-> [p[it] EXCEPT !.creates = 0, !.updates = 0, !.deletes = 0,
                                  !.rbUpdate = Nil, !.rbErrs = 0]]

\* what the call the client made last returned
LastRet ==
  IF calls[Len(calls)].op = "Apply"
  THEN IF IsNilErr(retErr) THEN "nil" ELSE "err"
  ELSE IF IsNilErr(drErr) THEN "nil" ELSE "err"

\* the client's record of its calls once it makes the call op
callsWith(op) ==
  IF calls = << >> THEN << [op |-> op, ret |-> "pending"] >>
  ELSE Append([calls EXCEPT ![Len(calls)].ret = LastRet], [op |-> op, ret |-> "pending"])

\* a new call starts: fresh context, fresh coordinator, fresh call counters
BeginCall(op) ==
  /\ apc \in {"idle", "returned"}
  /\ drpc = "idle"
  /\ Len(calls) < MaxCalls
  /\ calls' = callsWith(op)
  /\ port' = NewCall(port)
  /\ port0' = NewCall(port)
  /\ verified0' = isVerified
  /\ lookups' = 0
  /\ drErr' = NilDryErr
  /\ cancelled' = FALSE
  /\ rollbacks' = << >>
  /\ rbList' = [k \in Kinds |-> << >>]
  /\ sem' = 0
  /\ releasing' = 0
  /\ wg' = 0
  /\ wpc' = [it \in Items |-> "idle"]
  /\ wres' = [it \in Items |-> "none"]
  /\ fnCalls' = [it \in Items |-> 0]
  /\ mErrs' = NoErrs
  /\ lastErr' = NoErrs
  /\ rbCur' = 0
  /\ rbOrder' = << >>
  /\ orgSecrets' = << >>
  /\ parseErr' = "nil"
  /\ drRet' = NoRet
  /\ diffNew' = {}
  /\ UNCHANGED << applyReqLimit, entries, pkg, isVerified, pkgSecrets, isParsed, pkgValid,
                  auxvars >>

\* the client calls Service.DryRun
CallDryRun ==
  /\ BeginCall("DryRun")
  /\ retErr' = NoErrs
  /\ drCaller' = "direct"
  /\ drpc' = "validate"
  /\ apc' = "idle"
  /\ group' = 0
  /\ appCur' = 0
  /\ entCur' = 0
  /\ aggState' = "none"

\* variant: Apply runs DryRun whether or not the package is verified
CallApplyAlwaysDryRun ==
  /\ BeginCall("Apply")
  /\ retErr' = NoErrs
  /\ drCaller' = "apply"
  /\ drpc' = "validate"
  /\ apc' = "dryrun"
  /\ group' = 0
  /\ appCur' = 0
  /\ entCur' = 0
  /\ aggState' = "none"

\* the client calls Service.Apply: an unparsed package is validated and any
\* error returned; then DryRun when the package is not verified, else the
\* coordinator and the first runTilEnd with its new errStream
CallApply ==
  /\ BeginCall("Apply")
  /\ IF ~isParsed /\ pkgValid # "nil"
     THEN /\ retErr' = DryErr("Validate", << >>)
          /\ drCaller' = "none"
          /\ drpc' = "idle"
          /\ apc' = "returned"
          /\ group' = 0
          /\ appCur' = 0
          /\ entCur' = 0
          /\ aggState' = "none"
     ELSE IF ~isVerified
     THEN /\ retErr' = NoErrs
          /\ drCaller' = "apply"
          /\ drpc' = "validate"
          /\ apc' = "dryrun"
          /\ group' = 0
          /\ appCur' = 0
          /\ entCur' = 0
          /\ aggState' = "none"
     ELSE /\ retErr' = NoErrs
          /\ drCaller' = "none"
          /\ drpc' = "idle"
          /\ apc' = "run"
          /\ group' = 1
          /\ appCur' = 1
          /\ entCur' = 0
          /\ aggState' = "recv"

\* variant: a parse error of Validate aborts DryRun like any other error
DrValidateStrict ==
  /\ drpc = "validate"
  /\ IF ~isParsed /\ pkgValid # "nil"
     THEN drpc' = "abort" /\ drErr' = DryErr("Validate", << >>)
     ELSE drpc' = "secrets" /\ UNCHANGED drErr
  /\ parseErr' = "nil"
  /\ UNCHANGED << applyReqLimit, entries, port, pkg, isVerified, apc, coordVars, drCaller,
                  pkgSecrets, orgSecrets, lookups, port0, verified0, calls, isParsed,
                  pkgValid, drRet, diffNew, auxvars >>

\* DryRun on a package that is not parsed: Validate; an error that is not a
\* parse error is returned at once, a parse error is kept in parseErr
DrValidate ==
  /\ drpc = "validate"
  /\ IF ~isParsed /\ pkgValid = "other"
     THEN /\ drpc' = "abort"
          /\ drErr' = DryErr("Validate", << >>)
          /\ parseErr' = "nil"
     ELSE /\ drpc' = "secrets"
          /\ parseErr' = IF ~isParsed THEN pkgValid ELSE "nil"
          /\ UNCHANGED drErr
  /\ UNCHANGED << applyReqLimit, entries, port, pkg, isVerified, apc, coordVars, drCaller,
                  pkgSecrets, orgSecrets, lookups, port0, verified0, calls, isParsed,
                  pkgValid, drRet, diffNew, auxvars >>

\* dryRunSecrets: no call without secret references; else GetSecretKeys, whose
\* error is returned; else the keys left after the deletes, sorted, as an error
DrSecrets ==
  /\ drpc = "secrets"
  /\ IF pkgSecrets = {}
     THEN drpc' = "buckets" /\ UNCHANGED << drErr, lookups, orgSecrets >>
     ELSE /\ lookups' = lookups + 1
          /\ \/ /\ drpc' = "abort"
                /\ drErr' = DryErr("GetSecretKeys", << >>)
                /\ UNCHANGED orgSecrets
             \/ \E existingSecrets \in SUBSET SecretKeys :
                  /\ orgSecrets' = << existingSecrets >>
                  /\ IF pkgSecrets \ existingSecrets = {}
                     THEN /\ drpc' = "buckets"
                          /\ UNCHANGED drErr
                     ELSE /\ \E missing \in Orders(pkgSecrets \ existingSecrets) :
                               drErr' = DryErr("secrets", sortStrings(missing))
                          /\ drpc' = "abort"
  /\ UNCHANGED << applyReqLimit, entries, port, pkg, isVerified, apc, coordVars, drCaller,
                  pkgSecrets, port0, verified0, calls, valvars, auxvars >>

\* variant: the dry run creates the buckets it does not find
DrBucketsCreating ==
  /\ drpc = "buckets"
  /\ \E fails \in SUBSET Declared(entries, KBucket) :
        /\ pkg' = dryRunBuckets(port, pkg, entries, fails)
        /\ diffNew' = diffNew \cup diffNewOf(port, entries, KBucket, fails)
        /\ port' = [it \in Items |->
                      IF it \in Declared(entries, KBucket) /\ ~port[it].present
                      THEN PortCreate(port, it, New)[it] ELSE port[it]]
  /\ lookups' = lookups + entries[KBucket]
  /\ drpc' = "labels"
  /\ UNCHANGED << applyReqLimit, entries, isVerified, apc, coordVars, drCaller, drErr,
                  pkgSecrets, orgSecrets, port0, verified0, calls, isParsed, pkgValid, parseErr, drRet, auxvars >>

DrBuckets ==
  /\ drpc = "buckets"
  /\ \E fails \in SUBSET Declared(entries, KBucket) :
        /\ pkg' = dryRunBuckets(port, pkg, entries, fails)
        /\ diffNew' = diffNew \cup diffNewOf(port, entries, KBucket, fails)
  /\ lookups' = lookups + entries[KBucket]
  /\ drpc' = "labels"
  /\ UNCHANGED << applyReqLimit, entries, port, isVerified, apc, coordVars, drCaller, drErr,
                  pkgSecrets, orgSecrets, port0, verified0, calls, isParsed, pkgValid, parseErr, drRet, auxvars >>

DrLabels ==
  /\ drpc = "labels"
  /\ \E fails \in SUBSET Declared(entries, KLabel) :
        /\ pkg' = dryRunLabels(port, pkg, entries, fails)
        /\ diffNew' = diffNew \cup diffNewOf(port, entries, KLabel, fails)
  /\ lookups' = lookups + entries[KLabel]
  /\ drpc' = "endpoints"
  /\ UNCHANGED << applyReqLimit, entries, port, isVerified, apc, coordVars, drCaller, drErr,
                  pkgSecrets, orgSecrets, port0, verified0, calls, isParsed, pkgValid, parseErr, drRet, auxvars >>

\* dryRunNotificationEndpoints: the error of FindNotificationEndpoints is returned
DrEndpoints ==
  /\ drpc = "endpoints"
  /\ lookups' = lookups + 1
  /\ \/ /\ drpc' = "abort"
        /\ drErr' = DryErr("FindNotificationEndpoints", << >>)
        /\ UNCHANGED << pkg, diffNew >>
     \/ /\ pkg' = dryRunNotificationEndpoints(port, pkg, entries)
        /\ diffNew' = diffNew \cup diffNewOf(port, entries, KEndpoint, {})
        /\ drpc' = "variables"
        /\ UNCHANGED drErr
  /\ UNCHANGED << applyReqLimit, entries, port, isVerified, apc, coordVars, drCaller,
                  pkgSecrets, orgSecrets, port0, verified0, calls, isParsed, pkgValid, parseErr, drRet, auxvars >>

DrVariables ==
  /\ drpc = "variables"
  /\ \E fails \in SUBSET Declared(entries, KVariable) :
        /\ pkg' = dryRunVariables(port, pkg, entries, fails)
        /\ diffNew' = diffNew \cup diffNewOf(port, entries, KVariable, fails)
  /\ lookups' = lookups + entries[KVariable]
  /\ drpc' = "mappings"
  /\ UNCHANGED << applyReqLimit, entries, port, isVerified, apc, coordVars, drCaller, drErr,
                  pkgSecrets, orgSecrets, port0, verified0, calls, isParsed, pkgValid, parseErr, drRet, auxvars >>

\* dryRunLabelMappings, then pkg.isVerified = true; the error of a
\* FindResourceLabels is returned with the associations before it visited
DrMappings ==
  /\ drpc = "mappings"
  /\ \/ \E j \in 1..Len(mapperSeq(entries)) :
          /\ Exists(pkg, mapperSeq(entries)[j])
          /\ pkg' = dryRunLabelMappings(port, pkg, entries, j - 1)
          /\ lookups' = lookups + mappingLookups(pkg, entries, j)
          /\ drpc' = "abort"
          /\ drErr' = DryErr("FindResourceLabels", << >>)
          /\ UNCHANGED isVerified
     \/ /\ pkg' = dryRunLabelMappings(port, pkg, entries, Len(mapperSeq(entries)))
        /\ lookups' = lookups + mappingLookups(pkg, entries, Len(mapperSeq(entries)))
        /\ isVerified' = TRUE
        /\ drpc' = "done"
        /\ UNCHANGED drErr
  /\ UNCHANGED << applyReqLimit, entries, port, apc, coordVars, drCaller,
                  pkgSecrets, orgSecrets, port0, verified0, calls, valvars, auxvars >>

\* DryRun returns Summary{}, Diff{}, err or pkg.Summary(), diff, parseErr: to
\* the client, or to Apply, which returns the error or builds the coordinator
\* and starts the first runTilEnd
\* variant: Apply goes on to the coordinator whatever DryRun returned
applyProceedsAlways(err, perr) == TRUE

\* Apply after its DryRun: `if err != nil { return Summary{}, err }`
applyProceeds(err, perr) == IsNilErr(err) /\ perr = "nil"

DrReturn ==
  /\ drpc \in {"done", "abort"}
  /\ drpc' = "idle"
  /\ orgSecrets' = IF IsNilErr(drErr) THEN << >> ELSE orgSecrets
  /\ drRet' = IF IsNilErr(drErr)
              THEN [summary |-> "pkg", diff |-> "full", err |-> parseErr]
              ELSE [summary |-> "empty", diff |-> "empty", err |-> drErr.dryRun[1]]
  /\ IF drCaller = "direct"
     THEN UNCHANGED << apc, group, appCur, entCur, aggState, retErr >>
     ELSE IF applyProceeds(drErr, parseErr)
     THEN /\ apc' = "run"
          /\ group' = 1
          /\ appCur' = 1
          /\ entCur' = 0
          /\ aggState' = "recv"
          /\ UNCHANGED retErr
     ELSE /\ apc' = "returned"
          /\ retErr' = IF IsNilErr(drErr) THEN DryErr(parseErr, << >>) ELSE drErr
          /\ UNCHANGED << group, appCur, entCur, aggState >>
  /\ UNCHANGED << applyReqLimit, entries, port, pkg, isVerified, cancelled, rollbacks, rbList,
                  sem, releasing, wg, wpc, wres, fnCalls, mErrs, lastErr, rbCur, rbOrder,
                  drCaller, drErr, pkgSecrets, lookups, port0, verified0, calls, isParsed,
                  pkgValid, parseErr, diffNew, auxvars >>

Next ==
  \/ ApplyStart
  \/ Cancel
  \/ Register
  \/ Spawn
  \/ \E it \in Items : WorkerEnter(it)
  \/ \E it \in Items : WorkerCallOk(it)
  \/ \E it \in Items : WorkerCallErr(it)
  \/ \E it \in Items : AddSend(it)
  \/ \E it \in Items : AddDone(it)
  \/ AggDone
  \/ \E it \in Items : WorkerDone(it)
  \/ WorkerRelease
  \/ RunTilEndFinish
  \/ RollbackStep
  \/ ApplyReturn

Spec == Init /\ [][Next]_vars

\* the steps of Apply, its workers and its aggregator; Cancel is the caller's
Progress ==
  \/ ApplyStart
  \/ Register
  \/ Spawn
  \/ \E it \in Items : WorkerEnter(it)
  \/ \E it \in Items : WorkerCallOk(it)
  \/ \E it \in Items : WorkerCallErr(it)
  \/ \E it \in Items : AddSend(it)
  \/ \E it \in Items : AddDone(it)
  \/ AggDone
  \/ \E it \in Items : WorkerDone(it)
  \/ WorkerRelease
  \/ RunTilEndFinish
  \/ RollbackStep
  \/ ApplyReturn

\* an Apply of a package with one record of every kind but bucket: appliers
\* with and without entries, and a group with more workers than a small limit
InitLive ==
  /\ Init
  /\ entries = [k \in Kinds |-> ShapeEntries("kinds", k)]

\* every goroutine that can take a step is scheduled in the end, and every
\* port call returns
SpecLive == InitLive /\ [][Next]_vars /\ WF_vars(Progress)

\* a client that makes up to MaxCalls calls of DryRun and Apply on one package
\* and never cancels the context it passes
CallsBase ==
  /\ applyReqLimit = MaxReqLimit
  /\ entries = [k \in Kinds |-> ShapeEntries(CallsShape, k)]
  /\ cancelled = FALSE
  /\ \E s \in Scenarios : port = InitPort(s)
  /\ pkg = [it \in Items |-> [existing |-> Nil, id |-> NoID]]
  /\ isVerified = FALSE
  /\ apc = "idle"
  /\ group = 0
  /\ appCur = 0
  /\ entCur = 0
  /\ rollbacks = << >>
  /\ rbList = [k \in Kinds |-> << >>]
  /\ sem = 0
  /\ releasing = 0
  /\ wg = 0
  /\ wpc = [it \in Items |-> "idle"]
  /\ wres = [it \in Items |-> "none"]
  /\ fnCalls = [it \in Items |-> 0]
  /\ aggState = "none"
  /\ mErrs = NoErrs
  /\ lastErr = NoErrs
  /\ retErr = NoErrs
  /\ rbCur = 0
  /\ rbOrder = << >>
  /\ drpc = "idle"
  /\ drCaller = "none"
  /\ drErr = NilDryErr
  /\ pkgSecrets \in SUBSET SecretKeys
  /\ orgSecrets = << >>
  /\ lookups = 0
  /\ port0 = port
  /\ verified0 = FALSE
  /\ calls = << >>
  /\ parseErr = "nil"
  /\ drRet = NoRet
  /\ diffNew = {}
  /\ AuxIdle

\* the package was parsed before it is handed to the service
InitCalls ==
  /\ CallsBase
  /\ isParsed = TRUE
  /\ pkgValid = "nil"

NextCalls ==
  \/ CallDryRun
  \/ CallApply
  \/ DrValidate
  \/ DrSecrets
  \/ DrBuckets
  \/ DrLabels
  \/ DrEndpoints
  \/ DrVariables
  \/ DrMappings
  \/ DrReturn
  \/ Register
  \/ Spawn
  \/ \E it \in Items : WorkerEnter(it)
  \/ \E it \in Items : WorkerCallOk(it)
  \/ \E it \in Items : WorkerCallErr(it)
  \/ \E it \in Items : AddSend(it)
  \/ \E it \in Items : WorkerDone(it)
  \/ WorkerRelease
  \/ RunTilEndFinish
  \/ RollbackStep
  \/ ApplyReturn

SpecCalls == InitCalls /\ [][NextCalls]_vars

\* a client that calls DryRun on a package that may not be parsed
InitDry ==
  /\ CallsBase
  /\ isParsed \in BOOLEAN
  /\ pkgValid \in ValidateResults

NextDry ==
  \/ CallDryRun
  \/ DrValidate
  \/ DrSecrets
  \/ DrBuckets
  \/ DrLabels
  \/ DrEndpoints
  \/ DrVariables
  \/ DrMappings
  \/ DrReturn

SpecDry == InitDry /\ [][NextDry]_vars

\* a client that calls DryRun and Apply on a package that was built in memory
\* and never parsed
InitUnparsed ==
  /\ CallsBase
  /\ isParsed = FALSE
  /\ pkgValid \in ValidateResults

SpecUnparsed == InitUnparsed /\ [][NextCalls]_vars

\* between two calls of the client, somebody else deletes a record of the
\* organisation, and with a bucket or variable the labels attached to it
PlatformRemove(it) ==
  /\ apc \in {"idle", "returned"}
  /\ drpc = "idle"
  /\ calls # << >>
  /\ Len(calls) < MaxCalls
  /\ it[1] \in Updatable
  /\ it[2] <= entries[it[1]]
  /\ port[it].present
  /\ port' = [x \in Items |->
                IF x = it \/ (x \in Declared(entries, KMapping) /\ MappingRes(entries, x) = it)
                THEN [port[x] EXCEPT !.present = FALSE, !.val = Nil]
                ELSE port[x]]
  /\ UNCHANGED << applyReqLimit, entries, pkg, isVerified, apc, coordVars, drvars >>

\* a client that calls DryRun and Apply on a package of which the organisation
\* holds records, while records are deleted behind its back
InitStale ==
  /\ CallsBase
  /\ port = InitPort("mixed")
  /\ pkgSecrets = {}
  /\ isParsed = TRUE
  /\ pkgValid = "nil"

NextStale ==
  \/ NextCalls
  \/ \E it \in Items : PlatformRemove(it)

SpecStale == InitStale /\ [][NextStale]_vars

(* --------------------------- diff of DryRun --------------------------- *)
DiffNames == 1..NumDiffNames

\* sequences without repetition of at most n elements of S
ListsUpTo(S, n) ==
  UNION {{q \in [1..k -> S] : \A i, j \in 1..k : i # j => q[i] # q[j]} : k \in 0..n}

\* sort.Slice on a short slice: insertion sort, an element moves left while
\* it is less than its left neighbour
RECURSIVE insertByName(_, _)
insertByName(q, x) ==
  IF q = << >> THEN << x >>
  ELSE IF x < q[Len(q)]
       THEN insertByName(SubSeq(q, 1, Len(q) - 1), x) \o << q[Len(q)] >>
       ELSE Append(q, x)

RECURSIVE sortIntoByName(_, _)
sortIntoByName(acc, q) ==
  IF q = << >> THEN acc ELSE sortIntoByName(insertByName(acc, Head(q)), Tail(q))

\* variant: the section is returned in the order the map range yields it
sortDiffNamesSkipped(q) == q

\* sort.Slice(diffs, ...) of the bucket, label, endpoint and variable sections:
\* diffs[i].Name < diffs[j].Name
sortDiffNames(q) == sortIntoByName(<< >>, q)

\* the less function of the label mapping section on entries
\* << ResType, ResName, LabelName >>
lessMapping(n, m) ==
  IF n[1] < m[1] THEN TRUE
  ELSE IF n[1] > m[1] THEN FALSE
  ELSE IF n[2] < m[2] THEN TRUE
  ELSE IF n[2] > m[2] THEN FALSE
  ELSE n[3] < m[3]

RECURSIVE insertMapping(_, _)
insertMapping(q, x) ==
  IF q = << >> THEN << x >>
  ELSE IF lessMapping(x, q[Len(q)])
       THEN insertMapping(SubSeq(q, 1, Len(q) - 1), x) \o << q[Len(q)] >>
       ELSE Append(q, x)

RECURSIVE sortIntoMapping(_, _)
sortIntoMapping(acc, q) ==
  IF q = << >> THEN acc ELSE sortIntoMapping(insertMapping(acc, Head(q)), Tail(q))

\* sort.Slice(diffs, ...) of dryRunLabelMappings
sortDiffMappings(q) == sortIntoMapping(<< >>, q)

\* dryRunResourceLabelMapping on one association.  in.exists: la.Exists();
\* in.labels: la.Labels(); in.attached: what FindResourceLabels returns;
\* in.mLabels: the names in pkg.mLabels.  rest: the order in which the range
\* over pkgLabels yields the labels left; nilOk: whether setMapping on the nil
\* *label of a name that pkg.mLabels lacks returns instead of panicking.
\* Result: the mappingFn calls made, as << labelName, isNew >>; each call on a
\* name of pkg.mLabels sets the mapping of that package label, and each call
\* that returns appends one DiffLabelMapping.
dryRunResourceLabelMapping(in, rest, nilOk) ==
  LET fnCallsOf ==
        IF ~in.exists
        THEN [i \in DOMAIN in.labels |-> << in.labels[i], TRUE >>]
        ELSE [i \in DOMAIN in.attached |-> << in.attached[i], FALSE >>]
               \o [i \in DOMAIN rest |-> << rest[i], TRUE >>]
      nils == {i \in DOMAIN fnCallsOf : fnCallsOf[i][1] \notin in.mLabels}
      stop == IF nils = {} \/ nilOk THEN Len(fnCallsOf) + 1
              ELSE CHOOSE i \in nils : \A j \in nils : i <= j
  IN [panic   |-> stop <= Len(fnCallsOf),
      diff    |-> SubSeq(fnCallsOf, 1, stop - 1),
      mapping |-> {fnCallsOf[i] : i \in {j \in 1..(stop - 1) : fnCallsOf[j][1] \in in.mLabels}}]

\* the labels of la.Labels() that FindResourceLabels did not return
labelsLeft(in) ==
  {in.labels[i] : i \in DOMAIN in.labels} \ {in.attached[i] : i \in DOMAIN in.attached}

\* the associations the mapping diff is computed for: labels declared on the
\* resource are labels of the package; the platform may attach any label
MappingInputs ==
  {in \in [exists : BOOLEAN,
           labels : ListsUpTo(DiffNames, NumDiffNames),
           attached : ListsUpTo(DiffNames, NumDiffNames),
           mLabels : SUBSET DiffNames] :
     /\ \A i \in DOMAIN in.labels : in.labels[i] \in in.mLabels
     /\ ~in.exists => in.attached = << >>}

\* the diffs of a section in the order the range over its map yields them
NameInputs == ListsUpTo(DiffNames, NumDiffNames)

\* the label mapping diffs in the order the mappers and the ports yield them
TripleInputs == ListsUpTo(DiffNames \X DiffNames \X DiffNames, 3)

DiffMapping ==
  /\ dfc = "mapping"
  /\ \E rest \in Orders(labelsLeft(dfIn)), nilOk \in BOOLEAN :
        dfOut' = dryRunResourceLabelMapping(dfIn, rest, nilOk)
  /\ dfc' = "mapped"
  /\ UNCHANGED << applyReqLimit, entries, port, pkg, isVerified, apc, coordVars, drpc, drCaller,
                  drErr, pkgSecrets, orgSecrets, lookups, port0, verified0, calls, valvars,
                  createVars, dfIn, errText, extvars >>

DiffSortNames ==
  /\ dfc = "names"
  /\ dfOut' = sortDiffNames(dfIn)
  /\ dfc' = "namesSorted"
  /\ UNCHANGED << applyReqLimit, entries, port, pkg, isVerified, apc, coordVars, drpc, drCaller,
                  drErr, pkgSecrets, orgSecrets, lookups, port0, verified0, calls, valvars,
                  createVars, dfIn, errText, extvars >>

DiffSortMappings ==
  /\ dfc = "mappings"
  /\ dfOut' = sortDiffMappings(dfIn)
  /\ dfc' = "mappingsSorted"
  /\ UNCHANGED << applyReqLimit, entries, port, pkg, isVerified, apc, coordVars, drpc, drCaller,
                  drErr, pkgSecrets, orgSecrets, lookups, port0, verified0, calls, valvars,
                  createVars, dfIn, errText, extvars >>

\* a service on which no call of DryRun or Apply was made, and a package of
\* shape sh
RestOn(sh) ==
  /\ applyReqLimit = MaxReqLimit
  /\ entries = [k \in Kinds |-> ShapeEntries(sh, k)]
  /\ cancelled = FALSE
  /\ port = InitPort(CHOOSE s \in Scenarios : TRUE)
  /\ pkg = [it \in Items |-> [existing |-> Nil, id |-> NoID]]
  /\ isVerified = FALSE
  /\ apc = "idle"
  /\ group = 0
  /\ appCur = 0
  /\ entCur = 0
  /\ rollbacks = << >>
  /\ rbList = [k \in Kinds |-> << >>]
  /\ sem = 0
  /\ releasing = 0
  /\ wg = 0
  /\ wpc = [it \in Items |-> "idle"]
  /\ wres = [it \in Items |-> "none"]
  /\ fnCalls = [it \in Items |-> 0]
  /\ aggState = "none"
  /\ mErrs = NoErrs
  /\ lastErr = NoErrs
  /\ retErr = NoErrs
  /\ rbCur = 0
  /\ rbOrder = << >>
  /\ drpc = "idle"
  /\ drCaller = "none"
  /\ drErr = NilDryErr
  /\ pkgSecrets = {}
  /\ orgSecrets = << >>
  /\ lookups = 0
  /\ port0 = port
  /\ verified0 = FALSE
  /\ calls = << >>
  /\ isParsed = TRUE
  /\ pkgValid = "nil"
  /\ parseErr = "nil"
  /\ drRet = NoRet
  /\ diffNew = {}

AtRest == RestOn(CallsShape)

\* the steps of the diff, each on every input of its bounded set
InitDiff ==
  /\ AtRest
  /\ CreateIdle
  /\ ErrsIdle
  /\ ExtIdle
  /\ dfOut = << >>
  /\ \/ dfc = "mapping" /\ dfIn \in MappingInputs
     \/ dfc = "names" /\ dfIn \in NameInputs
     \/ dfc = "mappings" /\ dfIn \in TripleInputs

NextDiff ==
  \/ DiffMapping
  \/ DiffSortNames
  \/ DiffSortMappings

SpecDiff == InitDiff /\ [][NextDiff]_vars

(* ------------------------------ CreatePkg ----------------------------- *)
\* the kinds CreatePkg clones, in the order cloneOrgResources reads them
resourceTypeGens == << KBucket, KDash, KLabel, KEndpoint, KTele, KVariable >>

\* a resource of the platform: its kind and its name; it stands for its ID too
CloneResources == Range(resourceTypeGens) \X (1..NumCloneNames)

\* the setters: CreateWithMetadata, CreateWithAllOrgResources(orgID) with
\* orgID 0 or the organisation 1, CreateWithExistingResources on the list
\* cin.explicit (arg 1) or on a list with a resource whose OK() fails (arg 0)
Setters ==
  {[fn |-> "metadata", arg |-> 1]}
    \cup [fn : {"allOrg", "existing"}, arg : {0, 1}]

\* the error of one setter, "nil" when it succeeds
setterErr(st) ==
  IF st.fn = "allOrg" /\ st.arg = 0 THEN "orgID provided must not be zero"
  ELSE IF st.fn = "existing" /\ st.arg = 0 THEN "resource not ok"
  ELSE "nil"

\* one setter applied to opt
applySetter(opt, st, explicit) ==
  IF st.fn = "allOrg" THEN [opt EXCEPT !.orgIDs = @ \cup {st.arg}]
  ELSE IF st.fn = "existing" THEN [opt EXCEPT !.resources = @ \o explicit]
  ELSE opt

\* variant: a setter that fails is skipped
RECURSIVE runSettersLenient(_, _, _)
runSettersLenient(opt, setters, explicit) ==
  IF setters = << >> THEN [err |-> "nil", opt |-> opt]
  ELSE IF setterErr(Head(setters)) # "nil"
       THEN runSettersLenient(opt, Tail(setters), explicit)
       ELSE runSettersLenient(applySetter(opt, Head(setters), explicit), Tail(setters), explicit)

\* the loop over the setters: the first error ends it
RECURSIVE runSetters(_, _, _)
runSetters(opt, setters, explicit) ==
  IF setters = << >> THEN [err |-> "nil", opt |-> opt]
  ELSE IF setterErr(Head(setters)) # "nil"
       THEN [err |-> setterErr(Head(setters)), opt |-> opt]
       ELSE runSetters(applySetter(opt, Head(setters), explicit), Tail(setters), explicit)

\* the position of a kind in resourceTypeGens
GenIndex(k) == CHOOSE i \in DOMAIN resourceTypeGens : resourceTypeGens[i] = k

\* what cloneOrgResources can return for an organisation holding S: kind after
\* kind in the order of resourceTypeGens, each kind in the order its port lists it
OrgCloneOrders(S) ==
  {q \in Orders(S) : \A i, j \in DOMAIN q : i < j => GenIndex(q[i][1]) <= GenIndex(q[j][1])}

\* a sequence without its repetitions, first occurrences kept
RECURSIVE uniq(_)
uniq(q) ==
  IF q = << >> THEN << >>
  ELSE LET front == uniq(SubSeq(q, 1, Len(q) - 1))
       IN IF q[Len(q)] \in Range(front) THEN front ELSE Append(front, q[Len(q)])

uniqResourcesToClone(q) == uniq(q)

uniqResources(q) == uniq(q)

\* var kindPriorities: a kind the map lacks reads as zero
kindPriorities(k) ==
  CASE k = KLabel -> 1
    [] k = KBucket -> 2
    [] k = KVariable -> 3
    [] k = KDash -> 4
    [] OTHER -> 0

\* the less function handed to sort.Slice
lessResource(a, b) ==
  IF a[1] = b[1] THEN a[2] < b[2]
  ELSE kindPriorities(a[1]) < kindPriorities(b[1])

RECURSIVE insertResource(_, _)
insertResource(q, x) ==
  IF q = << >> THEN << x >>
  ELSE IF lessResource(x, q[Len(q)])
       THEN insertResource(SubSeq(q, 1, Len(q) - 1), x) \o << q[Len(q)] >>
       ELSE Append(q, x)

RECURSIVE sortIntoResources(_, _)
sortIntoResources(acc, q) ==
  IF q = << >> THEN acc ELSE sortIntoResources(insertResource(acc, Head(q)), Tail(q))

\* sort.Slice(pkg.Spec.Resources, ...)
sortResources(q) == sortIntoResources(<< >>, q)

\* CreatePkg returns nil and err
ReturnNil(err) ==
  /\ cret' = [isNil |-> TRUE, resources |-> << >>, err |-> err]
  /\ cpc' = "returned"

\* the loop over the setters
CreateSetters ==
  /\ cpc = "setters"
  /\ LET r == runSetters(cloc, cin.setters, cin.explicit)
     IN IF r.err # "nil"
        THEN ReturnNil(r.err) /\ UNCHANGED cloc
        ELSE cloc' = r.opt /\ cpc' = "cloneOrg" /\ UNCHANGED cret
  /\ UNCHANGED << cin, cportCalls >>
  /\ UNCHANGED << applyReqLimit, entries, port, pkg, isVerified, apc, coordVars, drpc, drCaller,
                  drErr, pkgSecrets, orgSecrets, lookups, port0, verified0, calls, valvars,
                  dfc, dfIn, dfOut, errText, extvars >>

\* the loop over opt.OrgIDs, which holds at most the organisation:
\* cloneOrgResources makes its six Find calls in turn, and the first that
\* fails ends CreatePkg
CreateCloneOrg ==
  /\ cpc = "cloneOrg"
  /\ IF cloc.orgIDs = {}
     THEN cpc' = "clone" /\ UNCHANGED << cloc, cret, cportCalls >>
     ELSE \/ \E failAt \in DOMAIN resourceTypeGens :
                /\ cportCalls' = cportCalls + failAt
                /\ ReturnNil("finding")
                /\ UNCHANGED cloc
          \/ \E q \in OrgCloneOrders(cin.plat.res) :
                /\ cportCalls' = cportCalls + Len(resourceTypeGens)
                /\ cloc' = [cloc EXCEPT !.resources = @ \o q]
                /\ cpc' = "clone"
                /\ UNCHANGED cret
  /\ UNCHANGED cin
  /\ UNCHANGED << applyReqLimit, entries, port, pkg, isVerified, apc, coordVars, drpc, drCaller,
                  drErr, pkgSecrets, orgSecrets, lookups, port0, verified0, calls, valvars,
                  dfc, dfIn, dfOut, errText, extvars >>

\* variant: every label found becomes a resource, met before or not
newLableResourcesAll(ls, memo) == ls

\* the labels of one FindResourceLabels reply that the memo m does not hold yet
newLableResources(ls, memo) == SelectSeq(ls, LAMBDA l : l \notin memo)

\* one turn of the loop over uniqResourcesToClone(opt.Resources):
\* resourceCloneToResource reads the record by ID, then, unless it is a label,
\* the labels attached to it; a label not met before becomes a resource too
CreateClone ==
  /\ cpc = "clone"
  /\ cloc.idx < Len(uniqResourcesToClone(cloc.resources))
  /\ LET r == uniqResourcesToClone(cloc.resources)[cloc.idx + 1]
         labels == {m[2] : m \in {a \in cin.plat.att : a[1] = r}}
     IN \/ /\ cportCalls' = cportCalls + 1
           /\ ReturnNil("cloning resource")
           /\ UNCHANGED cloc
        \/ /\ r \in cin.plat.res
           /\ r[1] # KLabel
           /\ cportCalls' = cportCalls + 2
           /\ ReturnNil("finding resource labels")
           /\ UNCHANGED cloc
        \/ /\ r \in cin.plat.res
           /\ \E ls \in Orders(IF r[1] = KLabel THEN {} ELSE labels) :
                LET newLabels == newLableResources(ls, cloc.memo)
                IN cloc' = [cloc EXCEPT !.idx = @ + 1,
                                        !.memo = @ \cup Range(ls),
                                        !.res = @ \o << r >> \o newLabels,
                                        !.ass = @ \cup {<< r, l >> : l \in Range(ls)},
                                        !.newLabels = @ \o newLabels,
                                        !.assLookups =
                                          IF r[1] = KLabel THEN @ ELSE @ \cup {r}]
           /\ cportCalls' = cportCalls + (IF r[1] = KLabel THEN 1 ELSE 2)
           /\ UNCHANGED << cpc, cret >>
  /\ UNCHANGED cin
  /\ UNCHANGED << applyReqLimit, entries, port, pkg, isVerified, apc, coordVars, drpc, drCaller,
                  drErr, pkgSecrets, orgSecrets, lookups, port0, verified0, calls, valvars,
                  dfc, dfIn, dfOut, errText, extvars >>

\* after the loop: uniqResources, Validate, the sort, and the return
CreateFinish ==
  /\ cpc = "clone"
  /\ cloc.idx = Len(uniqResourcesToClone(cloc.resources))
  /\ \/ ReturnNil("invalid package") /\ UNCHANGED cloc
     \/ /\ cloc' = [cloc EXCEPT !.res = uniqResources(@)]
        /\ cret' = [isNil |-> FALSE, resources |-> sortResources(uniqResources(cloc.res)),
                    err |-> "nil"]
        /\ cpc' = "returned"
  /\ UNCHANGED << cin, cportCalls >>
  /\ UNCHANGED << applyReqLimit, entries, port, pkg, isVerified, apc, coordVars, drpc, drCaller,
                  drErr, pkgSecrets, orgSecrets, lookups, port0, verified0, calls, valvars,
                  dfc, dfIn, dfOut, errText, extvars >>

\* the organisations CreatePkg reads: the resources they hold and the labels
\* attached to them
Platforms ==
  UNION {{[res |-> S, att |-> A] :
            A \in SUBSET ({r \in S : r[1] # KLabel} \X {l \in S : l[1] = KLabel})} :
         S \in {T \in SUBSET CloneResources : Cardinality(T) <= 3}}

\* the calls of CreatePkg: up to two setters, and the resources named to
\* CreateWithExistingResources, of which the platform may lack one
SetterLists == ListsUpTo(Setters, 2) \cup {<< st, st >> : st \in Setters}

\* a resource the platform does not hold
Missing(S) == CHOOSE r \in CloneResources : r \notin S

ExplicitLists(sts, S) ==
  IF \A i \in DOMAIN sts : sts[i] # [fn |-> "existing", arg |-> 1]
  THEN {<< >>}
  ELSE ListsUpTo(S \cup {Missing(S)}, 1)

InitCreate ==
  /\ AtRest
  /\ DiffIdle
  /\ ErrsIdle
  /\ ExtIdle
  /\ cpc = "setters"
  /\ \E pl \in Platforms, sts \in SetterLists :
       \E ex \in ExplicitLists(sts, pl.res) :
         cin = [setters |-> sts, explicit |-> ex, plat |-> pl]
  /\ cloc = NoLoc
  /\ cret = NoPkg
  /\ cportCalls = 0

NextCreate ==
  \/ CreateSetters
  \/ CreateCloneOrg
  \/ CreateClone
  \/ CreateFinish

SpecCreate == InitCreate /\ [][NextCreate]_vars

(* ------------------------- error aggregation -------------------------- *)
\* the keys of mErrs
Failing(m) == {k \in Kinds : m[k] # << >>}

\* errStream.do after the receive loop: one block per key of mErrs, in the
\* order the range over the map yields the keys; a block is toError of the
\* key, its resource_type line followed by the names in arrival order
errorText(m, order) == [i \in DOMAIN order |-> << order[i], m[order[i]] >>]

\* the receive loop of errStream.do takes the message of one failed entry of
\* the group that runs
ErrsReceive ==
  /\ ~errText.emitted
  /\ \E it \in Items :
       /\ it[2] <= entries[it[1]]
       /\ \A k \in Failing(mErrs) : GroupOf(k) = GroupOf(it[1])
       /\ it \notin Range(mErrs[it[1]])
       /\ mErrs' = aggAppend(mErrs, it[1], it)
  /\ UNCHANGED << applyReqLimit, entries, cancelled, port, pkg, isVerified, apc, group, appCur,
                  entCur, rollbacks, rbList, sem, releasing, wg, wpc, wres, fnCalls, aggState,
                  lastErr, retErr, rbCur, rbOrder, drvars >>

\* close(e.msgStream): the loop returns mErrs and the error is built and sent
ErrsEmit ==
  /\ ~errText.emitted
  /\ \E order \in Orders(Failing(mErrs)) :
       errText' = [emitted |-> TRUE, blocks |-> errorText(mErrs, order)]
  /\ UNCHANGED << applyReqLimit, entries, port, pkg, isVerified, apc, coordVars, drpc, drCaller,
                  drErr, pkgSecrets, orgSecrets, lookups, port0, verified0, calls, valvars,
                  createVars, dfc, dfIn, dfOut, extvars >>

InitErrs ==
  /\ \E sh \in Shapes : RestOn(sh)
  /\ AuxIdle

NextErrs ==
  \/ ErrsReceive
  \/ ErrsEmit

SpecErrs == InitErrs /\ [][NextErrs]_vars

(* ----------------------- the appliers' mutexes ------------------------ *)
\* the largest number of variables of the package in this model; it has one
\* label and one bucket
MaxSlots == 2

\* the groups of Apply that are followed: the labels, then two appliers of
\* the primary resources
mutexAppliers == << << KLabel >>, << KVariable, KBucket >> >>

\* every variable of the module but those of the finer-grained models
pkgervars == << applyReqLimit, entries, port, pkg, isVerified, apc, coordVars, drpc,
                drCaller, drErr, pkgSecrets, orgSecrets, lookups, port0, verified0,
                calls, valvars, createVars, dfc, dfIn, dfOut, errText >>

mxRest == << pkgervars, co, kv >>

MxSet(j, pc) == [mx.w EXCEPT ![j].pc = pc]

\* runTilEnd: r.rollbacks = append(r.rollbacks, app.rollbacker)
MxRegister ==
  /\ mx.pc = "run"
  /\ mx.app <= Len(mutexAppliers[mx.group])
  /\ mx.ent = 0
  /\ mx' = [mx EXCEPT !.rollbacks = registerRollbacker(@, mutexAppliers[mx.group][mx.app]),
                      !.ent = 1]
  /\ UNCHANGED mxRest

\* runTilEnd, body of the entries loop: r.sem <- struct{}{}; wg.Add(1); go func
MxSpawn ==
  /\ mx.pc = "run"
  /\ mx.app <= Len(mutexAppliers[mx.group])
  /\ mx.ent >= 1
  /\ semFree(mx.sem, mx.limit)
  /\ LET k == mutexAppliers[mx.group][mx.app]
         last == mx.ent = mx.entries[k]
     IN mx' = [mx EXCEPT !.w = Append(@, [k |-> k, i |-> workerIndex(mx.ent), pc |-> "lock1"]),
                         !.sem = @ + 1,
                         !.wg = @ + 1,
                         !.app = IF last THEN @ + 1 ELSE @,
                         !.ent = IF last THEN 0 ELSE @ + 1]
  /\ UNCHANGED mxRest

\* variant: Lock returns although the mutex is held
lockFreeAlways(h) == TRUE

\* sync.Mutex.Lock returns when nobody holds the mutex
lockFree(h) == h = 0

\* doMutex.Do: m.Lock()
MxLock(j) ==
  /\ mx.w[j].pc \in {"lock1", "lock2"}
  /\ lockFree(mx.holder[mx.w[j].k])
  /\ mx' = [mx EXCEPT !.holder[mx.w[j].k] = j,
                      !.w = MxSet(j, IF mx.w[j].pc = "lock1" THEN "slot1" ELSE "slot2")]
  /\ UNCHANGED mxRest

\* first mutex.Do of createFn: vars[i].OrgID = orgID; v = *vars[i]
MxSlotRead(j) ==
  /\ mx.w[j].pc = "slot1"
  /\ mx' = [mx EXCEPT !.w = MxSet(j, "unlock1")]
  /\ UNCHANGED mxRest

\* doMutex.Do: the deferred m.Unlock()
MxUnlock(j) ==
  /\ mx.w[j].pc \in {"unlock1", "unlock2"}
  /\ mx' = [mx EXCEPT !.holder[mx.w[j].k] = 0,
                      !.w = MxSet(j, IF mx.w[j].pc = "unlock1" THEN "fn" ELSE "exit")]
  /\ UNCHANGED mxRest

\* createFn between its two mutex.Do: shouldApply is false and it returns nil
MxFnSkip(j) ==
  /\ mx.w[j].pc = "fn"
  /\ mx' = [mx EXCEPT !.w = MxSet(j, "exit")]
  /\ UNCHANGED mxRest

\* createFn between its two mutex.Do: the port call succeeds
MxFnOk(j) ==
  /\ mx.w[j].pc = "fn"
  /\ mx' = [mx EXCEPT !.w = MxSet(j, "lock2")]
  /\ UNCHANGED mxRest

\* createFn between its two mutex.Do: the port call fails, createFn returns
\* an applyErrBody and the worker adds it to the error stream
MxFnErr(j) ==
  /\ mx.w[j].pc = "fn"
  /\ mx' = [mx EXCEPT !.w = MxSet(j, "exit"), !.failed = TRUE]
  /\ UNCHANGED mxRest

\* second mutex.Do of createFn: vars[i].id = influxVar.ID
MxSlotWrite(j) ==
  /\ mx.w[j].pc = "slot2"
  /\ mx' = [mx EXCEPT !.w = MxSet(j, "append")]
  /\ UNCHANGED mxRest

\* second mutex.Do of createFn: rollBackVars = append(rollBackVars, vars[i])
MxAppend(j) ==
  /\ mx.w[j].pc = "append"
  /\ mx' = [mx EXCEPT !.list[mx.w[j].k] = rollbackAppend(@, mx.w[j].i),
                      !.w = MxSet(j, "unlock2")]
  /\ UNCHANGED mxRest

\* the worker's deferred function, first half: wg.Done()
MxDone(j) ==
  /\ mx.w[j].pc = "exit"
  /\ mx' = [mx EXCEPT !.wg = @ - 1, !.w = MxSet(j, "release")]
  /\ UNCHANGED mxRest

\* the worker's deferred function, second half: <-r.sem
MxRelease(j) ==
  /\ mx.w[j].pc = "release"
  /\ mx' = [mx EXCEPT !.sem = @ - 1, !.w = MxSet(j, "done")]
  /\ UNCHANGED mxRest

\* runTilEnd from wg.Wait() on and what Apply does with its result
MxFinish ==
  /\ mx.pc = "run"
  /\ mx.app > Len(mutexAppliers[mx.group])
  /\ waitReturns(mx.wg)
  /\ mx' = IF mx.failed
           THEN [mx EXCEPT !.pc = "rollback", !.cur = 1]
           ELSE IF mx.group < Len(mutexAppliers)
           THEN [mx EXCEPT !.group = @ + 1, !.app = 1, !.ent = 0]
           ELSE [mx EXCEPT !.pc = "returned"]
  /\ UNCHANGED mxRest

\* rollbackCoordinator.rollback, one iteration: r.fn() reads the rollback
\* slice of its applier
MxRollback ==
  /\ mx.pc = "rollback"
  /\ mx.cur <= Len(mx.rollbacks)
  /\ LET k == mx.rollbacks[mx.cur]
     IN mx' = [mx EXCEPT !.read = Append(@, [k |-> k, list |-> mx.list[k]]),
                         !.cur = @ + 1]
  /\ UNCHANGED mxRest

\* the deferred rollback has finished: Apply returns
MxReturn ==
  /\ mx.pc = "rollback"
  /\ mx.cur > Len(mx.rollbacks)
  /\ mx' = [mx EXCEPT !.pc = "returned"]
  /\ UNCHANGED mxRest

\* Apply has made its coordinator and enters the first runTilEnd
InitMutex ==
  /\ AtRest
  /\ CreateIdle
  /\ DiffIdle
  /\ ErrsIdle
  /\ CoIdle
  /\ KvIdle
  /\ \E l \in 1..MaxReqLimit, n \in 1..MaxSlots :
       mx = [NoMx EXCEPT !.pc = "run", !.limit = l, !.group = 1, !.app = 1,
                         !.entries = [k \in MutexKinds |-> IF k = KVariable THEN n ELSE 1]]

NextMutex ==
  \/ MxRegister
  \/ MxSpawn
  \/ \E j \in DOMAIN mx.w :
       \/ MxLock(j)
       \/ MxSlotRead(j)
       \/ MxUnlock(j)
       \/ MxFnSkip(j)
       \/ MxFnOk(j)
       \/ MxFnErr(j)
       \/ MxSlotWrite(j)
       \/ MxAppend(j)
       \/ MxDone(j)
       \/ MxRelease(j)
  \/ MxFinish
  \/ MxRollback
  \/ MxReturn

SpecMutex == InitMutex /\ [][NextMutex]_vars

(* ----------------------- two concurrent Apply calls ------------------- *)
coRest == << pkgervars, mx, kv >>

\* the entries of the package of call c: each call has a package of its own
CoItems(c) == {<< c, i >> : i \in 1..co.entries}

\* the workers of call c that hold an element of a semaphore
CoRunning(c) == Cardinality({it \in CoItems(c) : co.w[it] = "fn"}) + co.releasing[c]

\* variant: the coordinator is a field of the Service and every call uses it
coordinatorOfService(c) == 1

\* coordinator := &rollbackCoordinator{...}: every call of Apply makes its own
coordinatorOf(c) == c

\* Apply: the coordinator is made and the first runTilEnd is entered
CoStart(c) ==
  /\ co.pc[c] = "start"
  /\ co' = [co EXCEPT !.pc[c] = "run"]
  /\ UNCHANGED coRest

\* runTilEnd: r.rollbacks = append(r.rollbacks, app.rollbacker)
CoRegister(c) ==
  /\ co.pc[c] = "run"
  /\ co.ent[c] = 0
  /\ co' = [co EXCEPT !.rollbacks[coordinatorOf(c)] = registerRollbacker(@, c),
                      !.ent[c] = 1]
  /\ UNCHANGED coRest

\* runTilEnd, body of the entries loop: r.sem <- struct{}{}; wg.Add(1); go func
CoSpawn(c) ==
  /\ co.pc[c] = "run"
  /\ co.ent[c] >= 1
  /\ co.ent[c] <= co.entries
  /\ semFree(co.sem[coordinatorOf(c)], co.limit)
  /\ co' = [co EXCEPT !.w[<< c, workerIndex(co.ent[c]) >>] = "fn",
                      !.sem[coordinatorOf(c)] = @ + 1,
                      !.wg[c] = @ + 1,
                      !.ent[c] = @ + 1]
  /\ UNCHANGED coRest

\* creater.fn returns nil: the resource was created on the platform and its
\* record appended to the rollback slice of the applier of this call; then
\* the first half of the worker's deferred function, wg.Done()
CoFnOk(it) ==
  /\ co.w[it] = "fn"
  /\ co' = [co EXCEPT !.platform = @ \cup {it},
                      !.list[it[1]] = rollbackAppend(@, it),
                      !.wg[it[1]] = @ - 1,
                      !.releasing[it[1]] = @ + 1,
                      !.w[it] = "done"]
  /\ UNCHANGED coRest

\* creater.fn returns an error, which goes to the error stream of this
\* runTilEnd; then the first half of the worker's deferred function
CoFnErr(it) ==
  /\ co.w[it] = "fn"
  /\ co' = [co EXCEPT !.failed[it[1]] = TRUE,
                      !.wg[it[1]] = @ - 1,
                      !.releasing[it[1]] = @ + 1,
                      !.w[it] = "done"]
  /\ UNCHANGED coRest

\* the deferred function of some worker of call c, second half: <-r.sem
CoRelease(c) ==
  /\ co.releasing[c] > 0
  /\ co' = [co EXCEPT !.sem[coordinatorOf(c)] = @ - 1, !.releasing[c] = @ - 1]
  /\ UNCHANGED coRest

\* runTilEnd from wg.Wait() on and what Apply does with its result
CoFinish(c) ==
  /\ co.pc[c] = "run"
  /\ co.ent[c] > co.entries
  /\ waitReturns(co.wg[c])
  /\ co' = IF co.failed[c]
           THEN [co EXCEPT !.pc[c] = "rollback", !.cur[c] = 1]
           ELSE [co EXCEPT !.pc[c] = "returned"]
  /\ UNCHANGED coRest

\* rollbackCoordinator.rollback of call c, one iteration: r.fn() deletes what
\* the rollback slice of that handler lists
CoRollback(c) ==
  /\ co.pc[c] = "rollback"
  /\ co.cur[c] <= Len(co.rollbacks[coordinatorOf(c)])
  /\ LET h == co.rollbacks[coordinatorOf(c)][co.cur[c]]
         gone == Range(co.list[h])
     IN co' = [co EXCEPT !.platform = @ \ gone,
                         !.deleted = @ \cup {[by |-> c, item |-> it] : it \in gone},
                         !.cur[c] = @ + 1]
  /\ UNCHANGED coRest

\* the deferred rollback has finished: Apply returns
CoReturn(c) ==
  /\ co.pc[c] = "rollback"
  /\ co.cur[c] > Len(co.rollbacks[coordinatorOf(c)])
  /\ co' = [co EXCEPT !.pc[c] = "returned"]
  /\ UNCHANGED coRest

\* two clients have called Apply on one Service, each with its own package
InitTwo ==
  /\ AtRest
  /\ CreateIdle
  /\ DiffIdle
  /\ ErrsIdle
  /\ MxIdle
  /\ KvIdle
  /\ \E l \in 1..MaxReqLimit, n \in 1..MaxSlots :
       co = [NoCo EXCEPT !.limit = l, !.entries = n,
                         !.pc = [c \in ApplyCalls |-> "start"],
                         !.w = [it \in ApplyCalls \X (1..n) |-> "idle"]]

NextTwo ==
  \E c \in ApplyCalls :
    \/ CoStart(c)
    \/ CoRegister(c)
    \/ CoSpawn(c)
    \/ \E it \in CoItems(c) :
         \/ CoFnOk(it)
         \/ CoFnErr(it)
    \/ CoRelease(c)
    \/ CoFinish(c)
    \/ CoRollback(c)
    \/ CoReturn(c)

SpecTwo == InitTwo /\ [][NextTwo]_vars

(* --------------------------- in-memory KVStore ------------------------ *)
\* the number of bucket names and of keys the clients use
NumKvNames == 2
NumKvKeys == 2

KvNames == 1..NumKvNames
KvKeys == 1..NumKvKeys

ErrTxNotWritable == "ErrTxNotWritable"

kvRest == << pkgervars, mx, co >>

\* btree.New(2): a tree without items; a tree is the set of its keys, the
\* clients writing one value
NewTree == {}

\* Bucket.Put: b.btree.ReplaceOrInsert(&item{key: key, value: value})
BucketPut(tree, k) == [tree |-> tree \cup {k}, err |-> "nil"]

\* Bucket.Delete: b.btree.Delete(&item{key: key})
BucketDelete(tree, k) == [tree |-> tree \ {k}, err |-> "nil"]

\* variant: the wrapper passes Put on to the bucket it wraps
roPutThrough(tree, k) == BucketPut(tree, k)

\* bucket.Put of the read-only wrapper
roPut(tree, k) == [tree |-> tree, err |-> ErrTxNotWritable]

\* bucket.Delete of the read-only wrapper
roDelete(tree, k) == [tree |-> tree, err |-> ErrTxNotWritable]

\* Tx.createBucketIfNotExists
createBucketIfNotExists(st, writable, b) ==
  IF writable
  THEN IF b \notin DOMAIN st.buckets
       THEN [buckets |-> [n \in DOMAIN st.buckets \cup {b} |->
                            IF n = b THEN NewTree ELSE st.buckets[n]],
             ro |-> [n \in DOMAIN st.ro \cup {b} |-> IF n = b THEN b ELSE st.ro[n]],
             handle |-> << [name |-> b, ro |-> FALSE] >>,
             err |-> "nil"]
       ELSE [buckets |-> st.buckets, ro |-> st.ro,
             handle |-> << [name |-> b, ro |-> FALSE] >>, err |-> "nil"]
  ELSE [buckets |-> st.buckets, ro |-> st.ro, handle |-> << >>, err |-> ErrTxNotWritable]

\* Tx.Bucket: the bucket, its read-only wrapper, or what
\* createBucketIfNotExists returns
TxBucket(st, writable, b) ==
  IF b \notin DOMAIN st.buckets
  THEN createBucketIfNotExists(st, writable, b)
  ELSE IF writable
  THEN [buckets |-> st.buckets, ro |-> st.ro,
        handle |-> << [name |-> b, ro |-> FALSE] >>, err |-> "nil"]
  ELSE [buckets |-> st.buckets, ro |-> st.ro,
        handle |-> << [name |-> st.ro[b], ro |-> TRUE] >>, err |-> "nil"]

\* KVStore.View: fn is called with a Tx that is not writable
KvView ==
  /\ kv.tx = "none"
  /\ kv' = [kv EXCEPT !.tx = "view", !.snap = << kv.buckets >>,
                      !.last = [op |-> "View", name |-> 0, ro |-> FALSE, err |-> "nil"]]
  /\ UNCHANGED kvRest

\* KVStore.Update: fn is called with a writable Tx
KvUpdate ==
  /\ kv.tx = "none"
  /\ kv' = [kv EXCEPT !.tx = "update", !.snap = << >>,
                      !.last = [op |-> "Update", name |-> 0, ro |-> FALSE, err |-> "nil"]]
  /\ UNCHANGED kvRest

\* fn calls tx.Bucket(b)
KvBucket(b) ==
  /\ kv.tx # "none"
  /\ LET r == TxBucket(kv, kv.tx = "update", b)
     IN kv' = [kv EXCEPT !.buckets = r.buckets,
                         !.ro = r.ro,
                         !.handles = @ \cup Range(r.handle),
                         !.last = [op |-> IF b \in DOMAIN kv.buckets THEN "Bucket"
                                          ELSE "BucketMissing",
                                   name |-> b, ro |-> kv.tx = "view", err |-> r.err]]
  /\ UNCHANGED kvRest

\* fn calls Put on a bucket it got from tx.Bucket
KvPut(h, k) ==
  /\ kv.tx # "none"
  /\ h \in kv.handles
  /\ LET r == IF h.ro THEN roPut(kv.buckets[h.name], k) ELSE BucketPut(kv.buckets[h.name], k)
     IN kv' = [kv EXCEPT !.buckets[h.name] = r.tree,
                         !.last = [op |-> "Put", name |-> h.name, ro |-> h.ro, err |-> r.err]]
  /\ UNCHANGED kvRest

\* fn calls Delete on a bucket it got from tx.Bucket
KvDelete(h, k) ==
  /\ kv.tx # "none"
  /\ h \in kv.handles
  /\ LET r == IF h.ro THEN roDelete(kv.buckets[h.name], k)
              ELSE BucketDelete(kv.buckets[h.name], k)
     IN kv' = [kv EXCEPT !.buckets[h.name] = r.tree,
                         !.last = [op |-> "Delete", name |-> h.name, ro |-> h.ro, err |-> r.err]]
  /\ UNCHANGED kvRest

\* fn returns, the deferred RUnlock or Unlock runs, and the buckets fn got
\* are dropped with it
KvEnd ==
  /\ kv.tx # "none"
  /\ kv' = [kv EXCEPT !.tx = "none", !.handles = {}, !.snap = << >>,
                      !.last = [op |-> "End", name |-> 0, ro |-> kv.tx = "view", err |-> "nil"]]
  /\ UNCHANGED kvRest

\* KVStore.Flush: b.btree.Clear(false) for every bucket
KvFlush ==
  /\ kv.tx = "none"
  /\ kv' = [kv EXCEPT !.buckets = [n \in DOMAIN kv.buckets |-> NewTree],
                      !.last = [op |-> "Flush", name |-> 0, ro |-> FALSE, err |-> "nil"]]
  /\ UNCHANGED kvRest

\* NewKVStore
InitKv ==
  /\ AtRest
  /\ CreateIdle
  /\ DiffIdle
  /\ ErrsIdle
  /\ MxIdle
  /\ CoIdle
  /\ kv = [NoKv EXCEPT !.made = TRUE]

NextKv ==
  \/ KvView
  \/ KvUpdate
  \/ \E b \in KvNames : KvBucket(b)
  \/ \E h \in kv.handles, k \in KvKeys : KvPut(h, k) \/ KvDelete(h, k)
  \/ KvEnd
  \/ KvFlush

SpecKv == InitKv /\ [][NextKv]_vars

TypeOK ==
  /\ applyReqLimit \in 1..MaxReqLimit
  /\ cancelled \in BOOLEAN
  /\ sem \in 0..applyReqLimit
  /\ releasing \in 0..sem
  /\ wg \in 0..Cardinality(Items)
  /\ apc \in {"start", "idle", "dryrun", "run", "rollback", "returned"}
  /\ \A it \in Items : wpc[it] \in {"idle", "spawned", "call", "add", "exit", "done"}
  /\ \A it \in Items : wres[it] \in {"none", "ok", "err", "skip"}
  /\ aggState \in {"none", "recv", "quit"}


(* ============================ properties ============================== *)
Active(it) == it[2] <= entries[it[1]]

ReturnedErr == apc = "returned" /\ ~IsNilErr(retErr)

\* the worker of the item made a successful Create / Update port call
Created(it) == wres[it] = "ok" /\ pkg[it].existing = Nil
Updated(it) == wres[it] = "ok" /\ pkg[it].existing # Nil

\* creater.fn of the item has returned / its port call has been issued
Returned(it) == wpc[it] \in {"add", "exit", "done"}
CallStarted(it) == wpc[it] = "call" \/ wres[it] \in {"ok", "err"}

\* wg.Wait() of the runTilEnd of group g has returned
BarrierDone(g) == group > g \/ (group = g /\ apc \in {"rollback", "returned"})

Reverse(q) == [i \in 1..Len(q) |-> q[Len(q) + 1 - i]]

InFlight == {it \in Items : wpc[it] = "call"}

\* C1: when Apply returns a non-nil error, every resource a worker of this
\* Apply created, in the failing or an earlier group, has had Delete invoked
\* by rollback, and is gone from the platform when that Delete succeeded.
C1_CreatedAreDeleted ==
  ReturnedErr =>
    \A it \in Items :
      Created(it) => /\ port[it].deletes >= 1
                     /\ (port[it].rbErrs = 0 => ~port[it].present)

\* Apply failed in a later group; a resource created in an earlier group and
\* one created in the failing group were both deleted again
C1_Witness ==
  /\ ReturnedErr
  /\ \E a, b \in Items :
       /\ Created(a) /\ Created(b)
       /\ GroupOf(a[1]) < group /\ GroupOf(b[1]) = group
       /\ port[a].deletes = 1 /\ ~port[a].present
       /\ port[b].deletes = 1 /\ ~port[b].present

\* C2: when Apply returns a non-nil error, every resource this Apply updated
\* receives a compensating Update carrying the values of the existing
\* snapshot, so the platform record is back at its pre-apply values.
C2_UpdatedAreRestored ==
  ReturnedErr =>
    \A it \in Items :
      Updated(it) => /\ port[it].rbUpdate = pkg[it].existing
                     /\ (port[it].rbErrs = 0 => port[it].val = pkg[it].existing)

\* C3: at most applyReqLimit workers are inside a create/update port call,
\* in every state, also across group boundaries.
C3_BoundedInFlight == Cardinality(InFlight) <= applyReqLimit

\* the cap binds: applyReqLimit calls are in flight and the coordinator has
\* a further entry to start
C3_Witness ==
  /\ applyReqLimit = MaxReqLimit
  /\ Cardinality(InFlight) = applyReqLimit
  /\ apc = "run" /\ entCur >= 1

\* C4: no primary-resource call starts before every label worker returned,
\* and no CreateLabelMapping call starts before every label worker and every
\* primary worker returned successfully.
C4_GroupOrdering ==
  \A it \in Items :
    /\ (GroupOf(it[1]) = 2 /\ CallStarted(it)) =>
          \A l \in GroupItems(1) : Active(l) => Returned(l)
    /\ (it[1] = KMapping /\ CallStarted(it)) =>
          \A w \in GroupItems(1) \cup GroupItems(2) :
             Active(w) => Returned(w) /\ wres[w] \in {"ok", "skip"}

\* C5: once a worker of a group returned an error, no worker of a later
\* group is ever started.
C5_NoLaterGroupAfterFailure ==
  \A a, b \in Items :
    (wres[a] = "err" /\ GroupOf(b[1]) > GroupOf(a[1])) => wpc[b] = "idle"

\* C6: creater.fn is invoked at most once per index, never for an index
\* beyond entries, and exactly once for every index of every applier of a
\* group by the time the group's barrier completes, whatever siblings return.
C6_EveryIndexOnce ==
  /\ \A it \in Items : fnCalls[it] <= 1 /\ (~Active(it) => fnCalls[it] = 0)
  /\ \A g \in 1..Len(appliers) :
       BarrierDone(g) => \A it \in GroupItems(g) : Active(it) => fnCalls[it] = 1

\* a group's barrier completed with one worker failed and a sibling that ran
\* to a successful port call
C6_Witness ==
  \E g \in 1..Len(appliers) :
    /\ BarrierDone(g)
    /\ \E a, b \in GroupItems(g) :
         wres[a] = "err" /\ wres[b] = "ok" /\ fnCalls[a] = 1 /\ fnCalls[b] = 1

\* C7: the error a group returns holds exactly the failures of its workers,
\* each under the resource kind of its applier, none lost.
C7_ErrorsAggregated ==
  apc \in {"rollback", "returned"} =>
    \A k \in Kinds :
      LET failed == {it \in GroupItems(group) : it[1] = k /\ wres[it] = "err"}
      IN Range(lastErr[k]) = failed /\ Len(lastErr[k]) = Cardinality(failed)

\* C8: when Apply returns a non-nil error, every recorded rollback handler
\* was invoked exactly once, those of earlier error-free groups included.
C8_HandlersOnce ==
  ReturnedErr =>
    /\ Len(rbOrder) = Len(rollbacks)
    /\ \A i \in 1..Len(rollbacks) :
         Cardinality({j \in 1..Len(rbOrder) : rbOrder[j] = rollbacks[i]}) = 1
    /\ \A k \in Kinds : GroupOf(k) <= group => k \in Range(rollbacks)

\* Apply failed in a later group after an error-free group, and the handlers
\* of both groups ran
C8_Witness ==
  /\ ReturnedErr
  /\ group >= 2
  /\ \A it \in GroupItems(1) : wres[it] # "err"
  /\ KLabel \in Range(rbOrder)
  /\ Len(rbOrder) >= 2

\* C9: rollback invokes the recorded rollbackers in reverse insertion order.
C9_ReverseOrder == ReturnedErr => rbOrder = Reverse(rollbacks)

\* C10: when the parent context was cancelled and a worker failed, Apply
\* returns a non-nil error, no later group was started, and everything this
\* Apply created or updated was handed to rollback.
C10_CancelRollsBack ==
  (apc = "returned" /\ cancelled /\ \E it \in Items : wres[it] = "err") =>
    /\ ~IsNilErr(retErr)
    /\ \A a, b \in Items :
         (wres[a] = "err" /\ GroupOf(b[1]) > GroupOf(a[1])) => wpc[b] = "idle"
    /\ \A it \in Items :
         /\ Created(it) => port[it].deletes >= 1
         /\ Updated(it) => port[it].rbUpdate # Nil


\* goroutines of runTilEnd that have been started and have not yet called wg.Done()
Running == {it \in Items : wpc[it] \in {"spawned", "call", "add", "exit"}}

\* C11: in the state where Apply returns, every worker goroutine and every
\* aggregator goroutine has run to completion.
C11_NoGoroutineOutlives ==
  apc = "returned" =>
    /\ Running = {}
    /\ releasing = 0
    /\ aggState = "none"

\* C12: every slot of the semaphore is held by exactly one goroutine that has
\* not yet terminated, on every exit path; with all workers terminated no
\* slot is held.
C12_SemNotLeaked ==
  /\ sem = Cardinality(Running) + releasing
  /\ (Running = {} /\ releasing = 0) => sem = 0

\* all workers of a failed and cancelled Apply have terminated, one after a
\* success and one after an error, and the semaphore is empty
C12_Witness ==
  /\ apc = "returned" /\ cancelled
  /\ Running = {} /\ releasing = 0 /\ sem = 0
  /\ \E a, b \in Items : wres[a] = "err" /\ wres[b] = "ok"


(* ------------------- DryRun and repeated calls (SpecCalls) ------------ *)
\* the call the client made last
LastCall == calls[Len(calls)]

\* mutating port calls made on an item during the current call
Mutations(it) ==
  port[it].creates + port[it].updates + port[it].deletes
    + (IF port[it].rbUpdate # Nil THEN 1 ELSE 0)

\* the records a platform holds and their field values
PlatformOf(p) == [it \in Items |-> << p[it].present, p[it].val >>]

\* a DryRun is running or was the last thing the current call ran
InDryRun == calls # << >> /\ (LastCall.op = "DryRun" \/ apc = "dryrun")

\* C13: DryRun makes no mutating port call: while and after it runs, the
\* number of Create / Update / Delete calls of the call is zero and the
\* platform is as it was when the call began.
C13_DryRunReadOnly ==
  InDryRun =>
    /\ \A it \in Items : Mutations(it) = 0
    /\ PlatformOf(port) = PlatformOf(port0)

\* a direct DryRun that completed after looking up and binding a record
C13_Witness ==
  /\ calls # << >>
  /\ LastCall.op = "DryRun"
  /\ drpc = "idle"
  /\ IsNilErr(drErr)
  /\ lookups >= 3
  /\ \E it \in Items : pkg[it].existing # Nil

C15_SecondApplyOnlyUpdates ==
  (/\ Len(calls) = 2
   /\ calls[1] = [op |-> "Apply", ret |-> "nil"]
   /\ calls[2].op = "Apply")
  => \A it \in Items : port[it].creates = 0

\* C16: when GetSecretKeys does not return every key the package refers to,
\* DryRun (and so an Apply that runs it) returns one error that lists exactly
\* the missing keys in ascending order; isVerified is left as it was, no
\* mutating port call is made and no rollback handler is registered or run.
C16_MissingSecrets ==
  (orgSecrets # << >> /\ pkgSecrets \ orgSecrets[1] # {}) =>
    /\ drpc \in {"abort", "idle"}
    /\ drErr.dryRun = << "secrets" >>
    /\ {drErr.keys[i] : i \in DOMAIN drErr.keys} = pkgSecrets \ orgSecrets[1]
    /\ \A i \in 1..(Len(drErr.keys) - 1) : drErr.keys[i] < drErr.keys[i + 1]
    /\ isVerified = verified0
    /\ \A it \in Items : Mutations(it) = 0
    /\ PlatformOf(port) = PlatformOf(port0)
    /\ rollbacks = << >>
    /\ rbOrder = << >>
    /\ (LastCall.op = "Apply" /\ drpc = "idle") => (apc = "returned" /\ retErr = drErr)

\* an Apply on an unverified package returned the error for two missing keys
C16_Witness ==
  /\ calls # << >>
  /\ LastCall.op = "Apply"
  /\ apc = "returned"
  /\ orgSecrets # << >>
  /\ Len(drErr.keys) = 2
  /\ retErr = drErr
  /\ ~isVerified


(* ------------------------ appliers and results ------------------------ *)
\* the applier of the item made its port call (it returned nil or an error)
Applied(it) == wres[it] \in {"ok", "err"}

\* C17: every applied bucket, label, variable and endpoint makes exactly one
\* mutating port call: a Create and no Update when its existing binding is
\* nil, an Update and no Create when it is bound; after a successful Create
\* the package slot holds the new ID.
C17_OneCallPerItem ==
  \A it \in Items : it[1] \in Updatable =>
    /\ port[it].creates + port[it].updates = (IF Applied(it) THEN 1 ELSE 0)
    /\ (Applied(it) /\ pkg[it].existing = Nil) => port[it].creates = 1
    /\ (Applied(it) /\ pkg[it].existing # Nil) => port[it].updates = 1
    /\ (wres[it] = "ok" /\ pkg[it].existing = Nil) => pkg[it].id = IdOf(it)

\* a bucket was updated by one Update call and Apply returned
C17_Witness ==
  /\ apc = "returned"
  /\ \E it \in Items :
       /\ it[1] = KBucket
       /\ Updated(it)
       /\ port[it].updates = 1
       /\ port[it].creates = 0

\* C18: when Apply returns nil and its context was never cancelled, every
\* bucket, label, variable and endpoint of the package exists on the platform
\* with the field values the package declares.
C18_PlatformMatchesPackage ==
  (apc = "returned" /\ IsNilErr(retErr) /\ ~cancelled) =>
    \A it \in Items : (Active(it) /\ it[1] \in Updatable) =>
      (port[it].present /\ port[it].val = New)

\* every worker of every group returned nil
AllSucceeded == \A it \in Items : Active(it) => wres[it] \in {"ok", "skip"}

\* C19: when every worker of every group succeeds, Apply returns nil and no
\* rollback handler is invoked: no Delete and no compensating Update is made.
C19_SuccessNoRollback ==
  AllSucceeded =>
    /\ apc # "rollback"
    /\ rbOrder = << >>
    /\ \A it \in Items : port[it].deletes = 0 /\ port[it].rbUpdate = Nil
    /\ apc = "returned" => IsNilErr(retErr)

\* Apply returned after all three groups applied or skipped every record
C19_Witness ==
  /\ apc = "returned"
  /\ group = Len(appliers)
  /\ AllSucceeded
  /\ \E a, b \in Items : a # b /\ wres[a] = "ok" /\ wres[b] = "ok"

\* the rollback handler made its port call for the record
RollbackCalled(it) ==
  IF it[1] \in Updatable /\ pkg[it].existing # Nil
  THEN port[it].rbUpdate # Nil
  ELSE port[it].deletes >= 1

\* C20: a failing rollback call neither changes what Apply returns nor stops
\* the rollback: every handler is run and makes its call for every record of
\* its rollback slice, and the error returned is the one the failing group's
\* runTilEnd aggregated from its workers.
C20_RollbackFailureIgnored ==
  ReturnedErr =>
    /\ retErr = lastErr
    /\ \A k \in Kinds : \A i \in DOMAIN retErr[k] :
          wres[retErr[k][i]] = "err" /\ GroupOf(k) = group
    /\ rbOrder = rollbacks
    /\ \A k \in Kinds : \A i \in DOMAIN rbList[k] : RollbackCalled(rbList[k][i])

\* the rollback call of a label failed and the bucket handler, which runs
\* after the label handler, still made its call
C20_Witness ==
  /\ ReturnedErr
  /\ \E a, b \in Items :
       /\ a[1] = KLabel
       /\ b[1] = KBucket
       /\ port[a].rbErrs > 0
       /\ wres[b] = "ok"
       /\ RollbackCalled(b)


(* --------------------------- rollback slices -------------------------- *)
\* number of times the record is in the rollback slice of its applier
TimesListed(it) == Cardinality({i \in DOMAIN rbList[it[1]] : rbList[it[1]][i] = it})

\* C23: at every point of an Apply the rollback slice of an applier holds
\* only records of its kind whose port call returned nil, each exactly once;
\* a record whose worker returned an error, was skipped by shouldApply or is a
\* label mapping that already exists is in no rollback slice.
C23_RollbackListOnlySucceeded ==
  /\ \A k \in Kinds : \A i \in DOMAIN rbList[k] :
        rbList[k][i][1] = k /\ wres[rbList[k][i]] = "ok"
  /\ \A it \in Items : TimesListed(it) = (IF wres[it] = "ok" THEN 1 ELSE 0)

\* Apply returned an error with one record applied, one skipped and one failed
C23_Witness ==
  /\ ReturnedErr
  /\ \E a, b, c \in Items :
       /\ wres[a] = "ok" /\ TimesListed(a) = 1
       /\ wres[b] = "skip" /\ TimesListed(b) = 0
       /\ wres[c] = "err" /\ TimesListed(c) = 0

\* C26: a label mapping the dry run marked existing gets no
\* CreateLabelMapping call, is in no rollback slice and gets no
\* DeleteLabelMapping call, so it is still attached after a failed Apply; only
\* mappings this Apply created are deleted by the rollback.
C26_ExistingMappingUntouched ==
  \A m \in Items : (m[1] = KMapping /\ Active(m)) =>
    /\ pkg[m].existing # Nil =>
         /\ port[m].creates = 0
         /\ port[m].deletes = 0
         /\ port[m].present
         /\ TimesListed(m) = 0
    /\ port[m].deletes > 0 => Created(m)

\* the label mapping handler ran in a rollback and the existing mapping is
\* still attached
C26_Witness ==
  /\ ReturnedErr
  /\ \E i \in DOMAIN rbOrder : rbOrder[i] = KMapping
  /\ \E m, n \in Items :
       /\ m[1] = KMapping /\ n[1] = KMapping
       /\ pkg[m].existing # Nil
       /\ wres[m] = "skip"
       /\ port[m].present
       /\ wres[n] = "err"

\* C27: for a bucket, label or variable whose shouldApply() is false the
\* worker returns nil without a port call, the recorded id stays as it was,
\* the record is in no rollback slice and the rollback makes no call for it.
C27_ShouldApplyFalseFrame ==
  \A it \in Items :
    (it[1] \in {KBucket, KLabel, KVariable} /\ Active(it) /\ ~shouldApply(pkg, it)) =>
      /\ wres[it] \in {"none", "skip"}
      /\ Mutations(it) = 0
      /\ pkg[it].id = NoID
      /\ TimesListed(it) = 0

\* the label handler ran in a rollback after one label was updated and an
\* identical one was skipped
C27_Witness ==
  /\ ReturnedErr
  /\ \E i \in DOMAIN rbOrder : rbOrder[i] = KLabel
  /\ \E a, b \in Items :
       /\ a[1] = KLabel /\ b[1] = KLabel
       /\ wres[a] = "ok"
       /\ ~shouldApply(pkg, b)
       /\ wres[b] = "skip"
       /\ Mutations(b) = 0


(* ----------------------- validation in DryRun ------------------------- *)
\* the last DryRun has returned to the client
DryRunReturned == calls # << >> /\ LastCall.op = "DryRun" /\ drRet # NoRet

\* C28: DryRun validates a package that is not parsed.  An error that is not
\* a parse error aborts it: empty summary and diff, that error, no port call,
\* isVerified as it was.  A parse error does not abort it: unless a port
\* fails, the full diff is computed, isVerified is set and the summary and
\* the diff are returned together with the parse error.
C28_ValidateInDryRun ==
  /\ (drCaller # "none" /\ ~isParsed /\ pkgValid = "other") =>
        /\ drpc \in {"validate", "abort", "idle"}
        /\ lookups = 0
        /\ \A it \in Items : Mutations(it) = 0
        /\ isVerified = verified0
        /\ DryRunReturned =>
             drRet = [summary |-> "empty", diff |-> "empty", err |-> "Validate"]
  /\ (drCaller # "none" /\ ~isParsed /\ pkgValid = "parse") =>
        /\ drErr # DryErr("Validate", << >>)
        /\ (DryRunReturned /\ IsNilErr(drErr)) =>
             /\ drRet = [summary |-> "pkg", diff |-> "full", err |-> "parse"]
             /\ isVerified

\* a DryRun of an unparsed package returned its diff with the parse error
C28_Witness ==
  /\ DryRunReturned
  /\ ~isParsed
  /\ drRet.err = "parse"
  /\ drRet.diff = "full"
  /\ isVerified
  /\ lookups >= 3


\* C24: after DryRun has returned, the existing binding of a bucket, label,
\* variable or endpoint of the package is set if and only if the platform
\* holds a record of that kind and name.
C24_ExistingIffPresent ==
  (DryRunReturned /\ IsNilErr(drErr)) =>
    \A it \in Items : (Active(it) /\ it[1] \in Updatable) =>
      (pkg[it].existing # Nil <=> port[it].present)

\* C25: the label mapping diff of a resource that exists on the platform has
\* exactly one entry for each label the package declares on it, with IsNew
\* false when the platform attaches the label and true otherwise; a label the
\* platform attaches and the package does not declare on the resource gives no
\* entry and changes nothing in the package
C25_MappingDiffOfExisting ==
  (dfc = "mapped" /\ dfIn.exists) =>
    /\ ~dfOut.panic
    /\ Len(dfOut.diff) = Len(dfIn.labels)
    /\ \A l \in Range(dfIn.labels) :
         << l, l \notin Range(dfIn.attached) >> \in Range(dfOut.diff)
    /\ \A c \in dfOut.mapping : c[1] \in Range(dfIn.labels)

\* C29: each section of the diff leaves its sort in ascending order of Name,
\* and the label mapping section in ascending order of (ResType, ResName,
\* LabelName), with the entries it was given, whatever order the map range
\* and the ports delivered them in
C29_DiffSorted ==
  /\ dfc = "namesSorted" =>
       /\ Range(dfOut) = Range(dfIn)
       /\ Len(dfOut) = Len(dfIn)
       /\ \A i, j \in DOMAIN dfOut : i < j => dfOut[i] < dfOut[j]
  /\ dfc = "mappingsSorted" =>
       /\ Range(dfOut) = Range(dfIn)
       /\ Len(dfOut) = Len(dfIn)
       /\ \A i, j \in DOMAIN dfOut : i < j => lessMapping(dfOut[i], dfOut[j])

\* the label mapping section arrived out of order, two of its entries on one
\* resource, and was sorted
C29_Witness ==
  /\ dfc = "mappingsSorted"
  /\ Len(dfIn) >= 3
  /\ dfOut # dfIn
  /\ dfIn[1][1] = dfIn[2][1]
  /\ dfIn[1][2] = dfIn[2][2]

\* the resource names errStream.add is called with, in ascending order
KindNames == << KBucket, KDash, KLabel, KMapping, KEndpoint, KTele, KVariable >>

KindRank(k) == CHOOSE i \in DOMAIN KindNames : KindNames[i] = k

\* C30: the error the stream emits lists the failing kinds in ascending order
\* of kind name, so the text is the same whatever order the failures arrived in
C30_ErrorBlocksSorted ==
  errText.emitted =>
    \A i, j \in DOMAIN errText.blocks :
      i < j => KindRank(errText.blocks[i][1]) < KindRank(errText.blocks[j][1])

\* the kinds in the order of the kind priority table
PriorityOrder == << KLabel, KBucket, KVariable, KDash, KEndpoint, KTele >>

Priority(k) == CHOOSE i \in DOMAIN PriorityOrder : PriorityOrder[i] = k

CreateReturned == cpc = "returned"

\* C21: the resources of the package CreatePkg returns are in the order
\* Label < Bucket < Variable < Dashboard < NotificationEndpoint < Telegraf of
\* their kinds and, within a kind, in ascending order of name
C21_ResourcesInPriorityOrder ==
  (CreateReturned /\ ~cret.isNil) =>
    \A i, j \in DOMAIN cret.resources :
      i < j =>
        LET a == cret.resources[i]
            b == cret.resources[j]
        IN \/ Priority(a[1]) < Priority(b[1])
           \/ a[1] = b[1] /\ a[2] < b[2]

\* the error of the first setter that fails, "nil" when none does
RECURSIVE FirstSetterErr(_)
FirstSetterErr(sts) ==
  IF sts = << >> THEN "nil"
  ELSE IF setterErr(Head(sts)) # "nil" THEN setterErr(Head(sts))
       ELSE FirstSetterErr(Tail(sts))

\* C22: when a setter fails, CreatePkg returns a nil package with the error of
\* that setter and has called no port; whenever CreatePkg returns an error,
\* a port error during cloning included, the package it returns is nil
C22_CreateFailsWhole ==
  CreateReturned =>
    /\ FirstSetterErr(cin.setters) # "nil" =>
         /\ cret.isNil
         /\ cret.err = FirstSetterErr(cin.setters)
         /\ cportCalls = 0
    /\ cret.err # "nil" => cret.isNil /\ cret.resources = << >>
    /\ cret.err = "nil" => ~cret.isNil

\* CreateWithAllOrgResources of the organisation came first and every read of
\* its resources succeeded; then a port failed after a resource had been cloned
C22_Witness ==
  /\ CreateReturned
  /\ cin.setters = << [fn |-> "allOrg", arg |-> 1] >>
  /\ cret.err = "finding resource labels"
  /\ cloc.res # << >>

\* how often x occurs in the sequence q
Occurrences(q, x) == Cardinality({i \in DOMAIN q : q[i] = x})

\* the resources CreatePkg has cloned so far
Cloned == Range(SubSeq(uniqResourcesToClone(cloc.resources), 1, cloc.idx))

\* C34: while CreatePkg clones, a label found through associations becomes a
\* label resource at most once, however many resources carry it; each cloned
\* resource lists in its associations all labels the platform attaches to it;
\* and FindResourceLabels is called for no resource of kind Label
C34_LabelsEmittedOnce ==
  cpc \in {"clone", "returned"} =>
    /\ \A l \in CloneResources : Occurrences(cloc.newLabels, l) <= 1
    /\ \A r \in Cloned : \A a \in cin.plat.att : a[1] = r => a \in cloc.ass
    /\ \A a \in cloc.ass : a \in cin.plat.att /\ a[2] \in Range(cloc.newLabels)
    /\ \A r \in cloc.assLookups : r[1] # KLabel

\* two cloned resources carry the same label, and the package was returned
C34_Witness ==
  /\ CreateReturned
  /\ ~cret.isNil
  /\ \E a, b \in cloc.ass : a[1] # b[1] /\ a[2] = b[2]

\* the Apply the client called last failed validation at its entry
FailedValidation ==
  /\ calls # << >>
  /\ LastCall.op = "Apply"
  /\ ~isParsed
  /\ pkgValid # "nil"

\* the Apply the client called last ran DryRun, which returned an error
FailedDryRun ==
  /\ calls # << >>
  /\ LastCall.op = "Apply"
  /\ drCaller = "apply"
  /\ drpc = "idle"
  /\ ~IsNilErr(drErr)

\* C35: an Apply whose validation of an unparsed package fails, or whose
\* DryRun returns an error, returns that error; it makes no create, update,
\* delete or label mapping call, registers no rollback handler and runs none
C35_ApplyFailsBeforeCoordinator ==
  /\ FailedValidation =>
       /\ apc = "returned"
       /\ retErr = DryErr("Validate", << >>)
       /\ lookups = 0
  /\ FailedDryRun =>
       /\ apc = "returned"
       /\ retErr = drErr
  /\ (FailedValidation \/ FailedDryRun) =>
       /\ \A it \in Items : Mutations(it) = 0
       /\ PlatformOf(port) = PlatformOf(port0)
       /\ \A it \in Items : wpc[it] = "idle" /\ fnCalls[it] = 0
       /\ rollbacks = << >>
       /\ rbOrder = << >>

\* an Apply on an unparsed package that validates ran DryRun, and the lookup
\* of the labels attached to a record failed
C35_Witness ==
  /\ FailedDryRun
  /\ ~isParsed
  /\ drErr.dryRun # << "secrets" >>
  /\ lookups >= 3

\* the DryRun of the current call went through all its sections
DryRunPassed == drCaller # "none" /\ drpc \in {"done", "idle"} /\ IsNilErr(drErr)

\* the records the platform held when the call began and whose lookup
\* returned an error during its DryRun
LookupFailed == {it \in diffNew : port0[it].present}

\* C37: a bucket, label or variable whose lookup fails does not fail DryRun:
\* it is listed as new in the diff and its existing field is unset, so that
\* Apply creates it; only the secrets, FindNotificationEndpoints and
\* FindResourceLabels steps abort DryRun
C37_FailedLookupIsAbsence ==
  /\ ~IsNilErr(drErr) =>
       drErr.dryRun[1] \in {"Validate", "GetSecretKeys", "secrets",
                            "FindNotificationEndpoints", "FindResourceLabels"}
  /\ DryRunPassed =>
       \A it \in LookupFailed :
         /\ it[1] \in {KBucket, KLabel, KVariable}
         /\ pkg[it].existing = Nil
         /\ port[it].updates = 0

\* no step takes the binding of a bucket, label, endpoint or variable away
BindingKept ==
  \A it \in Items :
    (it[1] \in Updatable /\ pkg[it].existing # Nil) => pkg'[it].existing # Nil

\* C36: DryRun never resets existing.  A record that the platform no longer
\* holds when a DryRun runs is listed as new in its diff, whether or not the
\* package still carries the binding of an earlier DryRun, and an Apply of a
\* package record that carries a binding makes no Create call for it: the
\* call it makes is the update
C36_StaleBindingKept ==
  /\ [](DryRunPassed =>
          \A it \in Items :
            (it[1] \in Updatable /\ it[2] <= entries[it[1]] /\ ~port0[it].present)
              => it \in diffNew)
  /\ []((calls # << >> /\ LastCall.op = "Apply") =>
          \A it \in Items :
            (it[1] \in Updatable /\ pkg[it].existing # Nil /\ ~port0[it].present) =>
              /\ port[it].creates = 0
              /\ wres[it] = "ok" => port[it].updates = 1)
  /\ [][BindingKept]_vars

\* a DryRun bound the bucket, the bucket was deleted, and the next DryRun
\* listed it as new while the package kept the binding
C36_Witness ==
  /\ Len(calls) = 2
  /\ calls[1] = [op |-> "DryRun", ret |-> "nil"]
  /\ LastCall.op = "DryRun"
  /\ DryRunPassed
  /\ drpc = "idle"
  /\ \E it \in diffNew : it[1] = KBucket /\ pkg[it].existing # Nil /\ ~port[it].present

\* a DryRun bound a record, the record was deleted, and an Apply updated it
C36_WitnessApply ==
  /\ Len(calls) = 2
  /\ calls[1] = [op |-> "DryRun", ret |-> "nil"]
  /\ LastCall.op = "Apply"
  /\ apc = "returned"
  /\ \E it \in Items : it[1] \in Updatable /\ ~port0[it].present /\ port[it].updates = 1

\* the errStream of the running group exists: its aggregator receives
\* messages or, having seen done, waits to hand nil to close
StreamOpen == aggState \in {"recv", "quit"}

\* the step in which runTilEnd closes the message channel of its errStream
\* and receives the result
ClosesStream == apc = "run" /\ StreamOpen /\ (apc' # "run" \/ group' # group)

\* C31: a worker that is in its add call finds the message channel of its
\* group open; the coordinator closes the channel in one step per group, and
\* only when no worker of the group is before or in its add call; when the
\* coordinator has passed the barrier the aggregator is there to answer
\* close, also after the parent context was cancelled
C31_StreamClosedOnceAfterWorkers ==
  /\ [](\A it \in Items : wpc[it] \in {"spawned", "call", "add"} => apc = "run" /\ StreamOpen)
  /\ []((apc = "run" /\ group >= 1) => StreamOpen)
  /\ [](apc # "run" => ~StreamOpen)
  /\ [][ClosesStream =>
          /\ \A it \in Items : wpc[it] \notin {"spawned", "call", "add", "exit"}
          /\ lastErr' = closeResult(aggState, mErrs)
          /\ aggState' # aggState \/ group' = group + 1]_vars

\* the context was cancelled, a worker's message was discarded, the aggregator
\* had quit, and close returned nil
C31_Witness ==
  /\ cancelled
  /\ apc = "returned"
  /\ IsNilErr(lastErr)
  /\ \E it \in Items : wres[it] = "err"

\* the appliers runTilEnd has gone past in its loop: those of the groups
\* before the running one and those before the cursor in it
Started ==
  IF group = 0 THEN << >>
  ELSE LET before(g) == IF g < group THEN appliers[g]
                        ELSE SubSeq(appliers[g], 1,
                                    IF entCur = 0 THEN appCur - 1 ELSE appCur)
           RECURSIVE upTo(_)
           upTo(g) == IF g = 0 THEN << >> ELSE upTo(g - 1) \o before(g)
       IN upTo(group)

\* C39: the handlers registered are those of the appliers whose group was
\* started, one each, entries or not; rollback invokes no other handler, so a
\* failure of the label group leads to rollback calls on labels only and a
\* failure of a primary group to no DeleteLabelMapping call
C39_OnlyStartedGroupsRollBack ==
  /\ rollbacks = Started
  /\ \A i \in DOMAIN rbOrder : GroupOf(rbOrder[i]) <= group
  /\ Len(rbOrder) <= Len(rollbacks)
  /\ \A it \in Items :
       (port[it].deletes > 0 \/ port[it].rbUpdate # Nil) =>
          /\ apc \in {"rollback", "returned"}
          /\ GroupOf(it[1]) <= group

\* a primary group failed although the label group had created a label: the
\* label was deleted, the handler of an applier without entries was invoked,
\* and that of the label mappings was not
C39_Witness ==
  /\ apc = "returned"
  /\ group = 2
  /\ ~IsNilErr(retErr)
  /\ \E it \in Items : it[1] = KLabel /\ port[it].deletes > 0
  /\ \E i \in DOMAIN rbOrder : entries[rbOrder[i]] = 0
  /\ \A i \in DOMAIN rbOrder : rbOrder[i] # KMapping
  /\ \E it \in Items : it[1] = KMapping /\ it[2] <= entries[KMapping]

\* C38: Apply terminates: whatever the limit, the entries and the outcomes of
\* the port calls, and whether or not the parent context is cancelled, Apply
\* returns in the end
C38_ApplyTerminates == <>(apc = "returned")

\* Apply returned after its context was cancelled while the semaphore was full
\* and a worker had failed
C38_Witness ==
  /\ apc = "returned"
  /\ cancelled
  /\ applyReqLimit = 1
  /\ \E it \in Items : wres[it] = "err"
  /\ \E it \in Items : wres[it] = "ok"

\* C32: a worker touches its applier's package slice or rollback slice only
\* while it holds that applier's mutex; two workers of an applier never have
\* the same index; and while rollback runs every worker that was started has
\* left creater.fn, so a rollback slice is never read while a worker can still
\* append to it.
InSlices == {"slot1", "slot2", "append"}

C32_SlicesUnderMutex ==
  /\ \A j \in DOMAIN mx.w : mx.w[j].pc \in InSlices => mx.holder[mx.w[j].k] = j
  /\ \A i, j \in DOMAIN mx.w :
       i # j => << mx.w[i].k, mx.w[i].i >> # << mx.w[j].k, mx.w[j].i >>
  /\ mx.pc \in {"rollback", "returned"} =>
       \A j \in DOMAIN mx.w : mx.w[j].pc \in {"release", "done"}
  /\ \A n \in DOMAIN mx.read : mx.read[n].list = mx.list[mx.read[n].k]

\* the bucket failed in the second group after the label and, with limit 2,
\* two workers of the variables had appended, the second index first, and
\* rollback read all three slices
C32_Witness ==
  /\ mx.pc = "returned"
  /\ mx.limit = 2
  /\ Len(mx.read) = 3
  /\ \E n \in DOMAIN mx.read : mx.read[n].k = KVariable /\ mx.read[n].list = << 2, 1 >>
  /\ \E n \in DOMAIN mx.read : mx.read[n].k = KLabel /\ mx.read[n].list = << 1 >>
  /\ \E n \in DOMAIN mx.read : mx.read[n].k = KBucket /\ mx.read[n].list = << >>


\* C33: two Apply calls that run at the same time each have their own
\* semaphore, rollback handlers and error result: the semaphore of a call
\* counts its own workers only and never exceeds the limit, the coordinator of
\* a call holds only the handler of that call, a rollback deletes only what
\* its own call created, and what a call without a failure created stays.
C33_CallsShareNoCoordinator ==
  \A c \in ApplyCalls :
    /\ co.sem[c] = CoRunning(c)
    /\ co.sem[c] <= co.limit
    /\ Range(co.rollbacks[c]) \subseteq {c}
    /\ \A d \in co.deleted : d.by = d.item[1]
    /\ co.pc[c] = "rollback" => co.failed[c]
    /\ ~co.failed[c] => Range(co.list[c]) \subseteq co.platform

\* the first call failed and its rollback deleted what it had created while
\* two of its workers still held its semaphore and the second call, without
\* a failure, had its own semaphore full and a resource on the platform
C33_Witness ==
  /\ co.limit = 2
  /\ co.pc[1] = "rollback"
  /\ \E d \in co.deleted : d.by = 1
  /\ co.sem[1] = 2
  /\ co.pc[2] = "run"
  /\ co.sem[2] = 2
  /\ ~co.failed[2]
  /\ \E it \in CoItems(2) : it \in co.platform

\* C40: a transaction opened with View leaves the store as it was; in it
\* Tx.Bucket of a missing name returns ErrTxNotWritable and makes no bucket,
\* Put and Delete on a bucket it handed out return ErrTxNotWritable; in a
\* transaction opened with Update, Tx.Bucket of a missing name makes the
\* bucket; and the two maps of the store always have the same names.
C40_ViewIsReadOnly ==
  /\ DOMAIN kv.buckets = DOMAIN kv.ro
  /\ kv.tx = "view" => kv.snap = << kv.buckets >>
  /\ kv.tx = "view" => \A h \in kv.handles : h.ro
  /\ (kv.last.op = "BucketMissing" /\ kv.last.ro) =>
       kv.last.err = ErrTxNotWritable /\ kv.last.name \notin DOMAIN kv.buckets
  /\ (kv.last.op \in {"Put", "Delete"} /\ kv.last.ro) => kv.last.err = ErrTxNotWritable
  /\ (kv.last.op = "BucketMissing" /\ ~kv.last.ro) =>
       /\ kv.last.err = "nil"
       /\ kv.last.name \in DOMAIN kv.buckets
       /\ [name |-> kv.last.name, ro |-> FALSE] \in kv.handles

\* inside View, Put was refused on a bucket that holds a key
C40_Witness ==
  /\ kv.tx = "view"
  /\ kv.last.op = "Put"
  /\ kv.last.ro
  /\ kv.buckets[kv.last.name] # {}
  /\ kv.buckets[kv.last.name] # KvKeys
  /\ DOMAIN kv.buckets # KvNames

====
